---- MODULE Spec2Model ----
(***************************************************************************)
(* A model of the AI life simulator: the per-agent need / habit / decision *)
(* core (agent.py), the behaviour-pattern store (behavior_model.py) and    *)
(* the step of the simulation engine (simulation.py).                      *)
(*                                                                         *)
(* Numbers are fixed point:                                                *)
(*   need values, money, personality traits, time of day : 1/100           *)
(*   dt, action_duration, total_time, decay_rate         : 1/10            *)
(*   mood, rewards                                        : 1/10000         *)
(*   habit strength                                       : 1/1000          *)
(* so that every product of the source (decay_rate * dt, 30 * dt, 5 * dt,  *)
(* reward factors ...) is an integer.                                      *)
(***************************************************************************)
EXTENDS Integers, Sequences, FiniteSets, TLC

VARIABLES
    need,            \* one Need object, driven through update / satisfy
    habit,           \* one Habit object, driven through reinforce
    agents,          \* agent id -> VirtualHuman state
    clock,           \* time.time(): a logical clock, one tick per read
    calls,           \* number of public calls made so far
    history,         \* calls of the agent's earlier life still to be made
    last_call,       \* the last public call: its arguments and its outcome
    occupants,       \* environment.locations[name].current_occupants
    social_network,  \* environment.social_network
    patterns,        \* behavior_model.patterns, in insertion order
    pattern_counter, \* behavior_model.pattern_counter
    stats,           \* SimulationEngine.stats
    paused,          \* SimulationEngine.paused
    events,          \* events handed to trigger_event by the last step
    day_fraction,    \* (time.time() % 86400) / 86400, in 1/100 of a day
    file,            \* behavior_patterns.json
    event_callbacks, \* SimulationEngine.event_callbacks
    delivered,       \* the callbacks the last trigger_event called, in order
    running,         \* SimulationEngine.running
    run_pc,          \* where the thread of run_simulation_async is in run()
    stop_called,     \* stop() has been called
    snapshot,        \* what the last get_simulation_state() returned
    between_steps    \* the engine's state when the last step returned

vars == <<need, habit, agents, clock, calls, history, last_call, occupants,
          social_network, patterns, pattern_counter, stats, paused, events,
          day_fraction, file, event_callbacks, delivered, running, run_pc,
          stop_called, snapshot, between_steps>>

runVars == <<running, run_pc, stop_called, snapshot, between_steps>>

needVars == <<need>>
habitVars == <<habit>>
agentVars == <<agents, clock>>
engineVars == <<occupants, social_network, patterns, pattern_counter, stats,
                paused, events, day_fraction, file, event_callbacks, delivered,
                runVars>>

----------------------------------------------------------------------------
(* Bounds of the model *)

MaxCalls == 2

MaxSteps == 3

NumAgents == 2

----------------------------------------------------------------------------
(* Program constants *)

MemoryLimit == 100

HistoryLimit == 20

min_pattern_usage == 5

ActionType == {"eat", "work", "sleep", "socialize", "idle"}

\* Enum order of ActionType: the iteration order of `for action in ActionType`
ActionOrder == <<"eat", "work", "sleep", "socialize", "idle">>

HabitActions == {"eat", "work", "sleep", "socialize"}

NeedNames == {"hunger", "energy", "happiness", "social_need"}

\* dt values handed to the agent operations: 0.1 (the engine's time_step),
\* 1.0 and 2.0
DtSet == {1, 10, 20}

\* random.uniform(1.0, 3.0): the two ends of the range
DurationSet == {10, 30}

Min(a, b) == IF a <= b THEN a ELSE b

Max(a, b) == IF a >= b THEN a ELSE b

----------------------------------------------------------------------------
(* agent.py: Need *)

Need_update_noclamp(n, dt) == [n EXCEPT !.value = n.value - n.decay_rate * dt]

Need_update(n, dt) == [n EXCEPT !.value = Max(0, n.value - n.decay_rate * dt)]

Need_satisfy(n, amount) == [n EXCEPT !.value = Min(10000, n.value + amount)]

Need_is_critical(n) == n.value > n.satisfaction_threshold

----------------------------------------------------------------------------
(* agent.py: Habit *)

NewHabit(strength) ==
    [strength |-> strength, success_count |-> 0, total_attempts |-> 0]

Habit_reinforce_noclamp(h, success) ==
    IF success
    THEN [h EXCEPT !.total_attempts = @ + 1, !.success_count = @ + 1,
                   !.strength = h.strength + 10]
    ELSE [h EXCEPT !.total_attempts = @ + 1,
                   !.strength = h.strength - 5]

Habit_reinforce_miscount(h, success) ==
    IF success
    THEN [h EXCEPT !.success_count = @ + 1,
                   !.strength = Min(1000, h.strength + 10)]
    ELSE [h EXCEPT !.total_attempts = @ + 1,
                   !.strength = Max(0, h.strength - 5)]

Habit_reinforce(h, success) ==
    IF success
    THEN [h EXCEPT !.total_attempts = @ + 1, !.success_count = @ + 1,
                   !.strength = Min(1000, h.strength + 10)]
    ELSE [h EXCEPT !.total_attempts = @ + 1,
                   !.strength = Max(0, h.strength - 5)]

\* The rate as a fraction num / den
Habit_get_success_rate(h) ==
    IF h.total_attempts = 0
    THEN [num |-> 1, den |-> 2]
    ELSE [num |-> h.success_count, den |-> h.total_attempts]

----------------------------------------------------------------------------
(* agent.py: VirtualHuman *)

NewNeed(value, decay_rate) ==
    [value |-> value, decay_rate |-> decay_rate, satisfaction_threshold |-> 3000]

\* VirtualHuman.__init__, the random draws given as the record d
NewAgent(id, d) ==
    [id |-> id,
     needs |-> [hunger      |-> NewNeed(d.hunger, 20),
                energy      |-> NewNeed(d.energy, 15),
                happiness   |-> NewNeed(d.happiness, 8),
                social_need |-> NewNeed(d.social_need, 10)],
     money |-> d.money,
     mood |-> d.mood,
     personality |-> [discipline    |-> d.discipline,
                      sociability   |-> d.sociability,
                      ambition      |-> d.ambition,
                      extraversion  |-> d.sociability,
                      agreeableness |-> d.agreeableness],
     habits |-> [k \in HabitActions |-> NewHabit(d.habit)],
     current_action |-> "idle",
     action_duration |-> 0,
     habit_strength_weight |-> 20,
     action_rewards |-> [k \in ActionType |-> 0],
     action_counts |-> [k \in ActionType |-> 0],
     memory |-> <<>>,
     total_actions |-> 0,
     position |-> "Home District"]

\* overall_satisfaction * 400, in 1/100
SatisfactionSum(a) ==
    (10000 - a.needs.hunger.value) + a.needs.energy.value
    + (10000 - a.needs.social_need.value) + a.needs.happiness.value

\* mood = 0.7 * mood + 0.3 * overall_satisfaction, rounded down to 1/10000
MoodAverage(a) == (28 * a.mood + 3 * SatisfactionSum(a)) \div 40

update_needs_noclamp(a, dt) ==
    LET n == a.needs
        b == [a EXCEPT
                !.needs.hunger.value = n.hunger.value + n.hunger.decay_rate * dt,
                !.needs.energy.value =
                    IF a.current_action # "sleep"
                    THEN n.energy.value - n.energy.decay_rate * dt
                    ELSE n.energy.value,
                !.needs.social_need.value =
                    n.social_need.value + n.social_need.decay_rate * dt,
                !.needs.happiness.value =
                    n.happiness.value - n.happiness.decay_rate * dt]
    IN  [b EXCEPT !.mood = MoodAverage(b)]

update_needs(a, dt) ==
    LET n == a.needs
        b == [a EXCEPT
                !.needs.hunger.value =
                    Min(10000, n.hunger.value + n.hunger.decay_rate * dt),
                !.needs.energy.value =
                    IF a.current_action # "sleep"
                    THEN Max(0, n.energy.value - n.energy.decay_rate * dt)
                    ELSE n.energy.value,
                !.needs.social_need.value =
                    Min(10000, n.social_need.value + n.social_need.decay_rate * dt),
                !.needs.happiness.value =
                    Max(0, n.happiness.value - n.happiness.decay_rate * dt)]
    IN  [b EXCEPT !.mood = MoodAverage(b)]

\* decide_action: the softmax gives every action kind a positive probability,
\* so np.random.choice can return any of them
decide_action(a) == ActionType

\* The action-specific part of perform_action: the agent after the action's
\* effects, success, reward (1/10000) and cost (1/100)
Outcome(a, success, reward, cost) ==
    [agent |-> a, success |-> success, reward |-> reward, cost |-> cost]

eat_flat_cost(a, dt) ==
    IF a.needs.hunger.value > 1000 /\ a.money >= 500
    THEN LET hunger_reduction == Min(300 * dt, a.needs.hunger.value)
         IN  Outcome([a EXCEPT
                        !.needs.hunger.value = @ - hunger_reduction,
                        !.needs.happiness.value = Min(10000, @ + 50 * dt),
                        !.money = @ - 500],
                     TRUE, hunger_reduction * 10, 500)
    ELSE Outcome(a, FALSE, 0, 0)

eat(a, dt) ==
    IF a.needs.hunger.value > 1000 /\ a.money >= 500
    THEN LET hunger_reduction == Min(300 * dt, a.needs.hunger.value)
             cost == 50 * dt
         IN  Outcome([a EXCEPT
                        !.needs.hunger.value = @ - hunger_reduction,
                        !.needs.happiness.value = Min(10000, @ + 50 * dt),
                        !.money = @ - cost],
                     TRUE, hunger_reduction * 10, cost)
    ELSE Outcome(a, FALSE, 0, 0)

sleep(a, dt) ==
    IF a.needs.energy.value < 9000
    THEN LET energy_gain == Min(400 * dt, 10000 - a.needs.energy.value)
         IN  Outcome([a EXCEPT
                        !.needs.energy.value = @ + energy_gain,
                        !.needs.social_need.value = Min(10000, @ + 20 * dt)],
                     TRUE, energy_gain * 5, 0)
    ELSE Outcome(a, FALSE, 0, 0)

socialize_charging_failure(a, dt) ==
    IF a.needs.social_need.value > 500 /\ a.money >= 300
    THEN LET social_reduction == Min(250 * dt, a.needs.social_need.value)
             cost == 30 * dt
         IN  Outcome([a EXCEPT
                        !.needs.social_need.value = @ - social_reduction,
                        !.needs.happiness.value = Min(10000, @ + 80 * dt),
                        !.money = @ - cost],
                     TRUE,
                     social_reduction * 8 + a.personality.sociability * 10,
                     cost)
    ELSE Outcome([a EXCEPT !.money = @ - 30 * dt], FALSE, 0, 0)

socialize(a, dt) ==
    IF a.needs.social_need.value > 500 /\ a.money >= 300
    THEN LET social_reduction == Min(250 * dt, a.needs.social_need.value)
             cost == 30 * dt
         IN  Outcome([a EXCEPT
                        !.needs.social_need.value = @ - social_reduction,
                        !.needs.happiness.value = Min(10000, @ + 80 * dt),
                        !.money = @ - cost],
                     TRUE,
                     social_reduction * 8 + a.personality.sociability * 10,
                     cost)
    ELSE Outcome(a, FALSE, 0, 0)

work_noclamp(a, dt) ==
    IF a.needs.energy.value > 2000
    THEN LET money_earned == ((1000 + 5 * a.personality.ambition) * dt) \div 10
         IN  Outcome([a EXCEPT
                        !.money = @ + money_earned,
                        !.needs.energy.value = @ - 150 * dt,
                        !.needs.hunger.value = Min(10000, @ + 80 * dt),
                        !.needs.happiness.value = Max(0, @ - 30 * dt)],
                     TRUE, money_earned * 2 + a.personality.ambition * 10, 0)
    ELSE Outcome(a, FALSE, 0, 0)

work(a, dt) ==
    IF a.needs.energy.value > 2000
    THEN LET money_earned == ((1000 + 5 * a.personality.ambition) * dt) \div 10
         IN  Outcome([a EXCEPT
                        !.money = @ + money_earned,
                        !.needs.energy.value = Max(0, @ - 150 * dt),
                        !.needs.hunger.value = Min(10000, @ + 80 * dt),
                        !.needs.happiness.value = Max(0, @ - 30 * dt)],
                     TRUE, money_earned * 2 + a.personality.ambition * 10, 0)
    ELSE Outcome(a, FALSE, 0, 0)

action_effects(a, action, dt) ==
    CASE action = "eat" -> eat(a, dt)
      [] action = "sleep" -> sleep(a, dt)
      [] action = "socialize" -> socialize(a, dt)
      [] action = "work" -> work(a, dt)
      [] OTHER -> Outcome(a, TRUE, 0, 0)

mood_after_noclamp(mood, success) ==
    IF success THEN mood + 200 ELSE mood - 500

mood_after(mood, success) ==
    IF success THEN Min(10000, mood + 200) ELSE Max(0, mood - 500)

\* The reinforcement learning update of perform_action
learn_no_penalty(a, action, success, reward) ==
    LET b == [a EXCEPT !.action_counts[action] = @ + 1]
    IN  IF success
        THEN [b EXCEPT !.action_rewards[action] = @ + reward,
                       !.habit_strength_weight =
                           IF reward > 5000 THEN Min(50, @ + 1) ELSE @]
        ELSE b

learn(a, action, success, reward) ==
    LET b == [a EXCEPT !.action_counts[action] = @ + 1]
    IN  IF success
        THEN [b EXCEPT !.action_rewards[action] = @ + reward,
                       !.habit_strength_weight =
                           IF reward > 5000 THEN Min(50, @ + 1) ELSE @]
        ELSE [b EXCEPT !.action_rewards[action] = @ - 1000]

MemoryRecord(a, action, o, now) ==
    [action |-> action, success |-> o.success, reward |-> o.reward,
     cost |-> o.cost, timestamp |-> now,
     needs_state |-> [k \in NeedNames |-> a.needs[k].value],
     money |-> a.money, mood |-> a.mood]

append_memory_evict_newest(memory, rec) ==
    IF Len(memory) + 1 > MemoryLimit THEN memory ELSE Append(memory, rec)

\* memory.append(...) and the trim to the last 100 records
append_memory(memory, rec) ==
    LET m == Append(memory, rec)
    IN  IF Len(m) > MemoryLimit THEN Tail(m) ELSE m

\* perform_action, the mood update
update_mood(a, success) == [a EXCEPT !.mood = mood_after(@, success)]

\* perform_action, `if action in self.habits: ... reinforce(success)`
reinforce_habit(a, action, success) ==
    IF action \in DOMAIN a.habits
    THEN [a EXCEPT !.habits[action] = Habit_reinforce(@, success)]
    ELSE a

\* perform_action, the memory record and the value returned
remember(a, action, o, now) ==
    [agent |-> [a EXCEPT !.memory =
                   append_memory(@, MemoryRecord(a, action, o, now))],
     success |-> o.success, raised |-> "none"]

\* perform_action after the action's effects, given as the outcome o
after_effects(o, action, now) ==
    IF action \notin DOMAIN o.agent.action_counts
    THEN [agent |-> update_mood(o.agent, o.success), success |-> o.success,
          raised |-> "KeyError"]
    ELSE remember(
            reinforce_habit(
                learn(update_mood(o.agent, o.success), action, o.success,
                      o.reward),
                action, o.success),
            action, o, now)

\* perform_action: the agent afterwards, the value returned and the
\* exception raised, if any
perform_action(a, action, dt, now) ==
    after_effects(action_effects(a, action, dt), action, now)

after_action_keeps_duration(r, dt) ==
    [agent |-> [r.agent EXCEPT !.total_actions = @ + 1],
     decided |-> TRUE, success |-> r.success, raised |-> r.raised]

\* update(dt), given the action decide_action samples and the duration drawn
\* update, after the decided action was performed with the result r
after_action(r, dt) ==
    [agent |-> [r.agent EXCEPT !.total_actions = @ + 1,
                               !.action_duration = @ - dt],
     decided |-> TRUE, success |-> r.success, raised |-> r.raised]

after_needs_redecides(b, dt, chosen, duration, now) ==
    after_action(
        perform_action([b EXCEPT !.current_action = chosen,
                                 !.action_duration = duration],
                       chosen, dt, now),
        dt)

\* update, after update_needs
after_needs(b, dt, chosen, duration, now) ==
    IF b.action_duration <= 0
    THEN after_action(
            perform_action([b EXCEPT !.current_action = chosen,
                                     !.action_duration = duration],
                           chosen, dt, now),
            dt)
    ELSE [agent |-> [b EXCEPT !.action_duration = @ - dt],
          decided |-> FALSE, success |-> FALSE, raised |-> "none"]

VirtualHuman_update(a, dt, chosen, duration, now) ==
    after_needs(update_needs(a, dt), dt, chosen, duration, now)

\* evolve_behavior: with 10 or more records the loop over the recent records
\* reads memory['satisfaction_gain'], a key no memory record has (see
\* MemoryRecord), so the first iteration raises KeyError before any habit is
\* touched
evolve_behavior(a) ==
    IF Len(a.memory) < 10
    THEN [agent |-> a, raised |-> "none"]
    ELSE IF "satisfaction_gain" \in DOMAIN a.memory[Len(a.memory) - Min(20, Len(a.memory)) + 1]
         THEN [agent |-> a, raised |-> "none"]
         ELSE [agent |-> a, raised |-> "KeyError"]

----------------------------------------------------------------------------
(* environment.py: locations and the social network *)

LocationOrder ==
    <<"Home District", "Office Complex", "Central Restaurant",
      "Community Center", "City Park", "Cafe Corner", "Sports Club",
      "Library">>

Loc(type, x, y, capacity) ==
    [location_type |-> type, x |-> x, y |-> y, capacity |-> capacity]

LocationInfo ==
    [l \in {LocationOrder[i] : i \in 1..Len(LocationOrder)} |->
        CASE l = "Home District" -> Loc("home", 20, 20, 50)
          [] l = "Office Complex" -> Loc("workplace", 80, 30, 30)
          [] l = "Central Restaurant" -> Loc("restaurant", 50, 50, 20)
          [] l = "Community Center" -> Loc("social_area", 30, 70, 40)
          [] l = "City Park" -> Loc("park", 70, 80, 100)
          [] l = "Cafe Corner" -> Loc("restaurant", 40, 30, 15)
          [] l = "Sports Club" -> Loc("social_area", 60, 20, 25)
          [] l = "Library" -> Loc("social_area", 25, 45, 35)]

InSeq(x, s) == \E i \in 1..Len(s) : s[i] = x

can_accommodate(occ, l) == Len(occ[l]) < LocationInfo[l].capacity

add_occupant(occ, l, id) ==
    IF can_accommodate(occ, l) /\ ~InSeq(id, occ[l])
    THEN [occ EXCEPT ![l] = Append(@, id)]
    ELSE occ

remove_occupant(occ, l, id) ==
    [occ EXCEPT ![l] = SelectSeq(@, LAMBDA x : x # id)]

\* The square of distance(loc) from the position of location `from`
Distance2(l, from) ==
    LET dx == LocationInfo[l].x - LocationInfo[from].x
        dy == LocationInfo[l].y - LocationInfo[from].y
    IN  dx * dx + dy * dy

\* The closest location of the preferred type that has room, the first of
\* several equally close ones; "None" when there is none
find_suitable_location(occ, preferred_type, position) ==
    LET suitable ==
            SelectSeq(LocationOrder,
                      LAMBDA l : /\ LocationInfo[l].location_type = preferred_type
                                 /\ can_accommodate(occ, l))
    IN  IF suitable = <<>> THEN "None"
        ELSE LET i == CHOOSE i \in 1..Len(suitable) :
                         \A j \in 1..Len(suitable) :
                            /\ Distance2(suitable[i], position)
                                 <= Distance2(suitable[j], position)
                            /\ j < i => Distance2(suitable[j], position)
                                          > Distance2(suitable[i], position)
             IN  suitable[i]

move_agent_to_location(occ, id, location_name, current_location) ==
    LET o1 == IF current_location # "None"
              THEN remove_occupant(occ, current_location, id)
              ELSE occ
    IN  add_occupant(o1, location_name, id)

\* The strength of a connection, in 1/100000
Strength(net, i, j) ==
    IF i \in DOMAIN net /\ j \in DOMAIN net[i] THEN net[i][j] ELSE 0

SetStrength(net, i, j, v) ==
    LET row == IF i \in DOMAIN net THEN net[i] ELSE <<>>
        new == [k \in DOMAIN row \cup {j} |-> IF k = j THEN v ELSE row[k]]
    IN  [k \in DOMAIN net \cup {i} |-> IF k = i THEN new ELSE net[k]]

create_social_connection(net, agent1_id, agent2_id, strength) ==
    LET n0 == IF agent1_id \in DOMAIN net THEN net
              ELSE [k \in DOMAIN net \cup {agent1_id} |->
                      IF k = agent1_id THEN <<>> ELSE net[k]]
        n1 == IF agent2_id \in DOMAIN n0 THEN n0
              ELSE [k \in DOMAIN n0 \cup {agent2_id} |->
                      IF k = agent2_id THEN <<>> ELSE n0[k]]
        s1 == Strength(n1, agent1_id, agent2_id)
        s2 == Strength(n1, agent2_id, agent1_id)
        n2 == SetStrength(n1, agent1_id, agent2_id, Min(100000, s1 + strength))
    IN  SetStrength(n2, agent2_id, agent1_id, Min(100000, s2 + strength))

\* environment.update(dt), as far as the engine's state goes: every social
\* connection decays by the factor 0.999 (weather, events and resources are
\* the environment's own)
environment_update(net) ==
    [i \in DOMAIN net |-> [j \in DOMAIN net[i] |-> (net[i][j] * 999) \div 1000]]

----------------------------------------------------------------------------
(* behavior_model.py *)

ConditionNames == {"hunger", "energy", "happiness", "social_need", "time_of_day"}

BehaviorPattern(pattern_id, conditions, actions, success_rate, usage_count) ==
    [pattern_id |-> pattern_id, conditions |-> conditions, actions |-> actions,
     success_rate |-> success_rate, usage_count |-> usage_count,
     last_used |-> 0, effectiveness_history |-> <<>>]

Abs(x) == IF x < 0 THEN -x ELSE x

\* The state dictionary suggest_action and update_pattern_effectiveness build
AgentState(a, time_of_day) ==
    [hunger |-> a.needs.hunger.value, energy |-> a.needs.energy.value,
     social_need |-> a.needs.social_need.value,
     happiness |-> a.needs.happiness.value, time_of_day |-> time_of_day]

\* matches / total >= 0.8 over the conditions the state has, each within 0.2
matches_conditions(p, agent_state) ==
    LET known == DOMAIN p.conditions \cap DOMAIN agent_state
        matching == {c \in known : Abs(agent_state[c] - p.conditions[c]) < 20}
    IN  IF Cardinality(known) > 0
        THEN 10 * Cardinality(matching) >= 8 * Cardinality(known)
        ELSE FALSE

CountTrue(h) == Cardinality({i \in 1..Len(h) : h[i]})

\* An update_effectiveness that never drops an outcome
update_effectiveness_keeping_all(p, success) ==
    [p EXCEPT !.usage_count = @ + 1,
              !.effectiveness_history = Append(@, success),
              !.success_rate =
                  (CountTrue(Append(p.effectiveness_history, success)) * 10000)
                  \div (Len(p.effectiveness_history) + 1)]

update_effectiveness(p, success) ==
    LET h0 == Append(p.effectiveness_history, success)
        h == IF Len(h0) > HistoryLimit THEN Tail(h0) ELSE h0
    IN  [p EXCEPT !.usage_count = @ + 1,
                  !.effectiveness_history = h,
                  !.success_rate = (CountTrue(h) * 10000) \div Len(h)]

\* The patterns a suggest_action without the establishment test would choose
\* from
MatchingPatterns_unestablished(store, a, time_of_day) ==
    {i \in 1..Len(store) :
        /\ matches_conditions(store[i], AgentState(a, time_of_day))
        /\ store[i].success_rate > 6000}

\* Positions in the store of the patterns suggest_action may choose from
MatchingPatterns(store, a, time_of_day) ==
    {i \in 1..Len(store) :
        /\ matches_conditions(store[i], AgentState(a, time_of_day))
        /\ store[i].usage_count >= min_pattern_usage
        /\ store[i].success_rate > 6000}

\* success_rate * (1.0 + 0.1 * (100 - last_used)), times 10
SuggestKey(p) == p.success_rate * (10 + (100 - p.last_used))

\* A suggest_action that takes the first qualifying pattern of the store
suggest_action_first_match(store, a, time_of_day) ==
    IF MatchingPatterns(store, a, time_of_day) = {}
    THEN [patterns |-> store, action |-> "None"]
    ELSE LET first == CHOOSE i \in MatchingPatterns(store, a, time_of_day) :
                         \A j \in MatchingPatterns(store, a, time_of_day) : i <= j
         IN  IF store[first].actions # <<>>
             THEN [patterns |-> [store EXCEPT ![first].last_used = 0],
                   action |-> store[first].actions[1]]
             ELSE [patterns |-> store, action |-> "None"]

\* suggest_action after the exploration roll has let it through: the store
\* afterwards and the action returned ("None" for no suggestion)
suggest_action(store, a, time_of_day) ==
    LET matching == MatchingPatterns(store, a, time_of_day)
    IN  IF matching = {}
        THEN [patterns |-> store, action |-> "None"]
        ELSE LET best == CHOOSE i \in matching :
                            \A j \in matching :
                                /\ SuggestKey(store[i]) >= SuggestKey(store[j])
                                /\ j < i => SuggestKey(store[j]) < SuggestKey(store[i])
             IN  IF store[best].actions # <<>>
                 THEN [patterns |-> [store EXCEPT ![best].last_used = 0],
                       action |-> store[best].actions[1]]
                 ELSE [patterns |-> store, action |-> "None"]

update_pattern_effectiveness(store, a, time_of_day, suggested_action, success) ==
    LET hits == {i \in 1..Len(store) :
                    /\ matches_conditions(store[i], AgentState(a, time_of_day))
                    /\ store[i].actions # <<>>
                    /\ store[i].actions[1] = suggested_action}
    IN  IF hits = {} THEN store
        ELSE LET first == CHOOSE i \in hits : \A j \in hits : i <= j
             IN  [store EXCEPT ![first] = update_effectiveness(store[first], success)]

\* self.patterns[pattern_id] = pattern: a new key goes to the end, an existing
\* key keeps its place and gets the new value
StorePut(store, p) ==
    IF \E i \in 1..Len(store) : store[i].pattern_id = p.pattern_id
    THEN [i \in 1..Len(store) |->
            IF store[i].pattern_id = p.pattern_id THEN p ELSE store[i]]
    ELSE Append(store, p)

SumOver(f, S) ==
    LET RECURSIVE go(_)
        go(T) == IF T = {} THEN 0
                 ELSE LET x == CHOOSE x \in T : TRUE IN f[x] + go(T \ {x})
    IN  go(S)

\* A discovery whose patterns are born established and successful
create_pattern_from_cluster_established(m, cluster_id, members, ags, time_of_day) ==
    LET n == Cardinality(members)
        mean(k) == SumOver([i \in members |-> ags[i].needs[k].value], members) \div n
        conditions == [k \in ConditionNames |->
                          IF k = "time_of_day" THEN time_of_day ELSE mean(k)]
        tail(i) == LET mem == ags[i].memory
                   IN  [j \in 1..Min(3, Len(mem)) |->
                          mem[Len(mem) - Min(3, Len(mem)) + j].action]
        count(i) == Cardinality({j \in members : tail(j) = tail(i)})
        first_seen(i) == CHOOSE i2 \in members :
                            /\ tail(i2) = tail(i)
                            /\ \A j2 \in members : tail(j2) = tail(i) => i2 <= j2
        \* a member whose sequence is the first seen of the most common ones
        top == CHOOSE i \in members :
                  \A j \in members :
                     /\ count(i) >= count(j)
                     /\ count(j) = count(i) => first_seen(i) <= first_seen(j)
        new == BehaviorPattern(<<"pattern", m.pattern_counter, cluster_id>>,
                               conditions, tail(top), 7000, 5)
    IN  [patterns |-> StorePut(m.patterns, new),
         pattern_counter |-> m.pattern_counter + 1]

\* _create_pattern_from_cluster: members are the ids of the cluster's agents
create_pattern_from_cluster(m, cluster_id, members, ags, time_of_day) ==
    LET n == Cardinality(members)
        mean(k) == SumOver([i \in members |-> ags[i].needs[k].value], members) \div n
        conditions == [k \in ConditionNames |->
                          IF k = "time_of_day" THEN time_of_day ELSE mean(k)]
        tail(i) == LET mem == ags[i].memory
                   IN  [j \in 1..Min(3, Len(mem)) |->
                          mem[Len(mem) - Min(3, Len(mem)) + j].action]
        count(i) == Cardinality({j \in members : tail(j) = tail(i)})
        first_seen(i) == CHOOSE i2 \in members :
                            /\ tail(i2) = tail(i)
                            /\ \A j2 \in members : tail(j2) = tail(i) => i2 <= j2
        \* a member whose sequence is the first seen of the most common ones
        top == CHOOSE i \in members :
                  \A j \in members :
                     /\ count(i) >= count(j)
                     /\ count(j) = count(i) => first_seen(i) <= first_seen(j)
        new == BehaviorPattern(<<"pattern", m.pattern_counter, cluster_id>>,
                               conditions, tail(top), 5000, 0)
    IN  [patterns |-> StorePut(m.patterns, new),
         pattern_counter |-> m.pattern_counter + 1]

\* discover_patterns, the clustering KMeans returns given as labels: id of a
\* qualifying agent -> cluster id
discover_patterns(m, ags, time_of_day, labels) ==
    LET ids == {i \in DOMAIN ags : Len(ags[i].memory) > 5}
        n == Cardinality(ids)
        n_clusters == Min(5, n \div 2)
        RECURSIVE clusters(_, _)
        clusters(mm, c) ==
            IF c >= n_clusters THEN mm
            ELSE LET members == {i \in ids : labels[i] = c}
                 IN  clusters(IF Cardinality(members) >= 2
                              THEN create_pattern_from_cluster(mm, c, members,
                                                               ags, time_of_day)
                              ELSE mm,
                              c + 1)
    IN  IF Cardinality(DOMAIN ags) < 3 \/ n < 3 \/ n_clusters < 2
        THEN m
        ELSE clusters(m, 0)

\* The inputs of one mutation: the 10% coin, the perturbation of each
\* condition (1/100) and the two positions swapped (<<0, 0>> for no swap)
NoMutation == [coin |-> FALSE, delta |-> [k \in ConditionNames |-> 0],
               swap |-> <<0, 0>>]

MutationChoices ==
    {NoMutation} \cup
    {[coin |-> TRUE, delta |-> d, swap |-> s] :
        d \in {[k \in ConditionNames |-> -10], [k \in ConditionNames |-> 10],
               [k \in ConditionNames |-> IF k = "hunger" THEN 10 ELSE -3]},
        s \in {<<0, 0>>, <<1, 2>>, <<3, 1>>}}

create_pattern_mutation(m, original, choice) ==
    LET new_conditions ==
            [k \in DOMAIN original.conditions |->
                Max(0, Min(100, original.conditions[k] + choice.delta[k]))]
        a == original.actions
        i == choice.swap[1]
        j == choice.swap[2]
        new_actions ==
            IF Len(a) > 1 /\ i \in 1..Len(a) /\ j \in 1..Len(a) /\ i # j
            THEN [a EXCEPT ![i] = a[j], ![j] = a[i]]
            ELSE a
        mutated == BehaviorPattern(
                      <<"mutation", m.pattern_counter, original.pattern_id>>,
                      new_conditions, new_actions,
                      (original.success_rate * 9) \div 10, 0)
    IN  [patterns |-> StorePut(m.patterns, mutated),
         pattern_counter |-> m.pattern_counter + 1]

\* Positions of the patterns _mutate_successful_patterns considers
SuccessfulPatterns(store) ==
    {i \in 1..Len(store) :
        store[i].success_rate > 8000 /\ store[i].usage_count >= min_pattern_usage}

mutate_successful_patterns(m, choices) ==
    LET successful == SelectSeq(m.patterns,
                         LAMBDA p : /\ p.success_rate > 8000
                                    /\ p.usage_count >= min_pattern_usage)
        RECURSIVE go(_, _)
        go(mm, k) ==
            IF k > Min(3, Len(successful)) THEN mm
            ELSE go(IF choices[k].coin
                    THEN create_pattern_mutation(mm, successful[k], choices[k])
                    ELSE mm,
                    k + 1)
    IN  go(m, 1)

\* An evolve_patterns that ages and mutates but removes nothing
evolve_patterns_keeping_all(m, choices) ==
    mutate_successful_patterns(
        [m EXCEPT !.patterns = [i \in 1..Len(m.patterns) |->
                                   [m.patterns[i] EXCEPT !.last_used = @ + 1]]],
        choices)

evolve_patterns(m, choices) ==
    LET aged == [i \in 1..Len(m.patterns) |->
                    [m.patterns[i] EXCEPT !.last_used = @ + 1]]
        remove(p) ==
            \/ p.usage_count >= min_pattern_usage * 2 /\ p.success_rate < 3000
            \/ p.last_used > 100 /\ p.usage_count < min_pattern_usage
        kept == SelectSeq(aged, LAMBDA p : ~remove(p))
    IN  mutate_successful_patterns([m EXCEPT !.patterns = kept], choices)

----------------------------------------------------------------------------
(* agent.py: calculate_action_utility before the noise is added (1/100000) *)

\* The need-based part of the utility
need_utility(a, action) ==
    CASE action = "eat" -> 30 * a.needs.hunger.value - a.money
      [] action = "sleep" -> 25 * (10000 - a.needs.energy.value)
      [] action = "socialize" ->
            (2 * a.needs.social_need.value * a.personality.sociability
             - 5 * a.money) \div 10
      [] action = "work" ->
            1500 * a.personality.ambition
            + (IF a.money < 20000 THEN 100000 ELSE 50000)
            - 5 * (10000 - a.needs.energy.value)
      [] OTHER -> 0

\* habit.strength * time_match * decision_weights['habit_strength'] * 5.0,
\* every habit's time_preference being the default 0.5
habit_utility(a, action, time_of_day) ==
    IF action \in DOMAIN a.habits
    THEN (a.habits[action].strength * (100 - Abs(time_of_day - 50))
          * a.habit_strength_weight) \div 20
    ELSE 0

\* The personality modifier, in 1/1000
personality_modifier(a, action) ==
    CASE action = "socialize" -> 300 + 7 * a.personality.sociability
      [] action = "work" -> 300 + 7 * a.personality.discipline
      [] action = "eat" -> 500 + 5 * a.personality.discipline
      [] OTHER -> 1000

\* 0.7 + mood * 0.6, in 1/1000 rounded down
mood_modifier(a) == 700 + (6 * a.mood) \div 100

\* avg_reward * 0.5 for an action the agent has performed
learned_utility(a, action) ==
    IF a.action_counts[action] > 0
    THEN (5 * a.action_rewards[action]) \div a.action_counts[action]
    ELSE 0

\* The utility before `utility += random.uniform(-0.3, 0.3)` and the floor
pre_noise_utility(a, action, time_of_day) ==
    ((((need_utility(a, action) + habit_utility(a, action, time_of_day))
       * personality_modifier(a, action)) \div 1000)
     * mood_modifier(a)) \div 1000
    + learned_utility(a, action)

----------------------------------------------------------------------------
(* behavior_model.py: save_patterns and load_patterns *)

\* behavior_patterns.json: absent, not parseable as JSON, or a JSON object
\* whose entries are listed in key order
FileOf(state, entries) == [state |-> state, entries |-> entries]

MissingFile == FileOf("missing", <<>>)

InvalidJsonFile == FileOf("invalid_json", <<>>)

\* A string of the JSON file
JsonString(v) == [str |-> v]

\* action.value
ActionValue(a) == JsonString(a)

\* ActionType(action_str): the member with that value, or ValueError
ActionOfValue(j) ==
    IF \E a \in ActionType : ActionValue(a) = j
    THEN CHOOSE a \in ActionType : ActionValue(a) = j
    ELSE "ValueError"

\* The entry save_patterns writes for one pattern
SavedEntry(p) ==
    [pattern_id |-> p.pattern_id,
     data |-> [conditions |-> p.conditions,
               actions |-> [i \in 1..Len(p.actions) |-> ActionValue(p.actions[i])],
               success_rate |-> p.success_rate,
               usage_count |-> p.usage_count,
               effectiveness_history |-> p.effectiveness_history]]

save_patterns_without_usage(store) ==
    FileOf("json",
           [i \in 1..Len(store) |->
               [SavedEntry(store[i]) EXCEPT !.data.usage_count = 0]])

save_patterns(store) ==
    FileOf("json", [i \in 1..Len(store) |-> SavedEntry(store[i])])

\* The exception the body of load_patterns' loop raises for one entry, "none"
\* if it raises none
EntryError(data) ==
    IF "actions" \notin DOMAIN data THEN "KeyError"
    ELSE IF \E i \in 1..Len(data.actions) :
               ActionOfValue(data.actions[i]) = "ValueError"
         THEN "ValueError"
         ELSE IF {"conditions", "success_rate", "usage_count"} \subseteq DOMAIN data
              THEN "none"
              ELSE "KeyError"

\* The pattern load_patterns builds from one entry
LoadedPattern(e) ==
    [BehaviorPattern(e.pattern_id, e.data.conditions,
                     [i \in 1..Len(e.data.actions) |->
                         ActionOfValue(e.data.actions[i])],
                     e.data.success_rate, e.data.usage_count)
     EXCEPT !.effectiveness_history =
                IF "effectiveness_history" \in DOMAIN e.data
                THEN e.data.effectiveness_history ELSE <<>>]

\* load_patterns, the loop over the entries from entry i on: the store
\* afterwards and the exception that leaves the loop
RECURSIVE load_entries(_, _, _)
load_entries(store, entries, i) ==
    IF i > Len(entries) THEN [patterns |-> store, raised |-> "none"]
    ELSE IF EntryError(entries[i].data) # "none"
         THEN [patterns |-> store, raised |-> EntryError(entries[i].data)]
         ELSE load_entries(StorePut(store, LoadedPattern(entries[i])),
                           entries, i + 1)

\* load_patterns: only FileNotFoundError is caught
load_patterns(store, f) ==
    CASE f.state = "missing" -> [patterns |-> store, raised |-> "none"]
      [] f.state = "invalid_json" ->
            [patterns |-> store, raised |-> "JSONDecodeError"]
      [] OTHER -> load_entries(store, f.entries, 1)

----------------------------------------------------------------------------
(* simulation.py: SimulationEngine *)

time_step == 1

AgentIds == 0..(NumAgents - 1)

\* (time.time() % 86400) / 86400 while the model runs: a quarter or half a day
TodSet == {25, 50}

TargetType(action) ==
    CASE action = "eat" -> "restaurant"
      [] action = "work" -> "workplace"
      [] action = "sleep" -> "home"
      [] action = "socialize" -> "social_area"
      [] OTHER -> "None"

\* The first location, in dictionary order, that lists the agent
CurrentLocation(occ, id) ==
    LET at == SelectSeq(LocationOrder, LAMBDA l : InSeq(id, occ[l]))
    IN  IF at = <<>> THEN "None" ELSE at[1]

\* The state a step works on
StepState(ags, clk, occ, net, m, st, ev, raised) ==
    [agents |-> ags, clock |-> clk, occupants |-> occ, social_network |-> net,
     model |-> m, stats |-> st, events |-> ev, raised |-> raised]

\* step: the loop `for agent in self.agents: agent.update(self.time_step)`
\* with its agent_action events
\* One pass of that loop, r being what agent i's update gave
agent_updated(s, i, r) ==
    [s EXCEPT !.agents[i] = r.agent,
              !.clock = IF r.decided THEN @ + 1 ELSE @,
              !.events = Append(@, [type |-> "agent_action", agent |-> i,
                                    action |-> r.agent.current_action,
                                    ai_suggested |-> FALSE])]

RECURSIVE update_agents(_, _, _, _)
update_agents(s, i, decisions, durations) ==
    IF i \notin DOMAIN s.agents THEN s
    ELSE update_agents(
            agent_updated(s, i,
                          VirtualHuman_update(s.agents[i], time_step,
                                              decisions[i], durations[i],
                                              s.clock)),
            i + 1, decisions, durations)

\* update_agent_locations, the location an agent's action sends it to
TargetLocation(occ, a) ==
    IF TargetType(a.current_action) = "None" THEN "None"
    ELSE find_suitable_location(occ, TargetType(a.current_action), a.position)

\* update_agent_locations, the move of one agent
relocate(s, i, current_location, target_location) ==
    IF target_location # "None" /\ target_location # current_location
    THEN [s EXCEPT !.occupants =
                       move_agent_to_location(@, i, target_location,
                                              current_location),
                   !.agents[i].position = target_location]
    ELSE s

RECURSIVE update_agent_locations(_, _)
update_agent_locations(s, i) ==
    IF i \notin DOMAIN s.agents THEN s
    ELSE update_agent_locations(
            relocate(s, i, CurrentLocation(s.occupants, i),
                     TargetLocation(s.occupants, s.agents[i])),
            i + 1)

\* The pairs process_social_interactions rolls for, in the order it visits them
SocialPairs(ags, occ) ==
    LET pairsAt(l) ==
            LET o == occ[l]
                idx == {<<i, j>> \in (1..Len(o)) \X (1..Len(o)) :
                            /\ i < j
                            /\ \/ ags[o[i]].current_action = "socialize"
                               \/ ags[o[j]].current_action = "socialize"}
                RECURSIVE list(_)
                list(S) ==
                    IF S = {} THEN <<>>
                    ELSE LET p == CHOOSE p \in S : \A q \in S :
                                     \/ p[1] < q[1]
                                     \/ (p[1] = q[1] /\ p[2] <= q[2])
                         IN  <<[agent1 |-> o[p[1]], agent2 |-> o[p[2]],
                                location |-> l]>> \o list(S \ {p})
            IN  IF Len(o) > 1 THEN list(idx) ELSE <<>>
        RECURSIVE all(_)
        all(k) == IF k > Len(LocationOrder) THEN <<>>
                  ELSE pairsAt(LocationOrder[k]) \o all(k + 1)
    IN  all(1)

\* interaction_prob * 0.3 > 0: the roll random.random() < prob can succeed
CanInteract(ags, p) ==
    (ags[p.agent1].personality.extraversion + ags[p.agent2].personality.extraversion)
    * (ags[p.agent1].personality.agreeableness + ags[p.agent2].personality.agreeableness)
    > 0

\* process_social_interactions: `fired` is the position in SocialPairs of the
\* first pair whose roll succeeds (0: none does). The connection is created,
\* then agent1.needs['social'] is read: the needs are keyed 'hunger', 'energy',
\* 'happiness' and 'social_need', so the lookup raises KeyError
interact(s, p) ==
    LET s1 == [s EXCEPT !.social_network =
                  create_social_connection(@, p.agent1, p.agent2, 5000)]
    IN  IF "social" \in DOMAIN s.agents[p.agent1].needs
        THEN [s1 EXCEPT
                !.agents[p.agent1].needs["social"] = Need_satisfy(@, 10),
                !.agents[p.agent2].needs["social"] = Need_satisfy(@, 10),
                !.stats.social_interactions = @ + 1,
                !.events = Append(@, [type |-> "social_interaction",
                                      agent1 |-> p.agent1,
                                      agent2 |-> p.agent2,
                                      location |-> p.location])]
        ELSE [s1 EXCEPT !.raised = "KeyError"]

process_social_interactions(s, fired) ==
    IF fired = 0 THEN s
    ELSE interact(s, SocialPairs(s.agents, s.occupants)[fired])

\* The agents suggest_action can return an action for
Suggestible(s, time_of_day) ==
    {i \in DOMAIN s.agents :
        suggest_action(s.model.patterns, s.agents[i], time_of_day).action # "None"}

\* apply_behavior_model_suggestions: `who` is the first agent, in list order,
\* for which suggest_action returns an action (-1: it returns None for all,
\* which the exploration roll always allows). The agent's action and duration
\* are overwritten, then self.perform_action is called: SimulationEngine has
\* no such method (perform_action is VirtualHuman's), so AttributeError
suggested(s, who, r, duration) ==
    [s EXCEPT !.model.patterns = r.patterns,
              !.agents[who].current_action = r.action,
              !.agents[who].action_duration = duration,
              !.raised = "AttributeError"]

apply_behavior_model_suggestions(s, who, time_of_day, duration) ==
    IF who = -1 THEN s
    ELSE suggested(s, who,
                   suggest_action(s.model.patterns, s.agents[who], time_of_day),
                   duration)

\* The loop `if random.random() < 0.1: agent.evolve_behavior()`: `rolled` are
\* the agents whose roll succeeds
evolve_agents(s, rolled) ==
    IF \E i \in rolled : evolve_behavior(s.agents[i]).raised # "none"
    THEN [s EXCEPT !.raised = "KeyError"]
    ELSE s

IntTime(s) == s.stats.total_time \div 10

\* A step that announces every discovery call, whether the store grew or not
discovered_always_announcing(s, m1, choices) ==
    [s EXCEPT
       !.model = IF IntTime(s) % 100 = 0
                 THEN evolve_patterns(m1, choices) ELSE m1,
       !.events = Append(@, [type |-> "pattern_discovered",
                             new_patterns |-> Len(m1.patterns)
                                                 - Len(s.model.patterns),
                             total_patterns |-> Len(m1.patterns)])]

\* step, after the discovery phase left the model m1: the
\* pattern_discovered event and the evolution phase
discovered(s, m1, choices) ==
    LET grown == Len(m1.patterns) - Len(s.model.patterns)
    IN  [s EXCEPT
           !.model = IF IntTime(s) % 100 = 0
                     THEN evolve_patterns(m1, choices) ELSE m1,
           !.events = IF grown > 0
                      THEN Append(@, [type |-> "pattern_discovered",
                                      new_patterns |-> grown,
                                      total_patterns |-> Len(m1.patterns)])
                      ELSE @]

discover_and_evolve(s, time_of_day, labels, choices) ==
    discovered(s,
               IF IntTime(s) % 50 = 0
               THEN discover_patterns(s.model, s.agents, time_of_day, labels)
               ELSE s.model,
               choices)

\* The event kinds __init__ registers in event_callbacks
EventKinds ==
    {"agent_action", "pattern_discovered", "social_interaction",
     "simulation_update"}

NewCallbacks == [k \in EventKinds |-> <<>>]

\* A callback is given by what a call of it does: it returns, or it raises an
\* exception of class Exception
Callback(id, raises) == [id |-> id, raises |-> raises]

add_event_callback(cbs, event_type, callback) ==
    IF event_type \in DOMAIN cbs
    THEN [cbs EXCEPT ![event_type] = Append(@, callback)]
    ELSE cbs

\* The callbacks called so far and the exception that leaves trigger_event
Triggered(log, raised) == [delivered |-> log, raised |-> raised]

\* trigger_event, the loop `for callback in ...: try: callback(data) except
\* Exception: print(...)` from callback i on
RECURSIVE call_callbacks(_, _, _)
call_callbacks(cs, i, log) ==
    IF i > Len(cs) THEN Triggered(log, "none")
    ELSE call_callbacks(
            cs, i + 1,
            Append(log, [callback |-> cs[i].id, caught |-> cs[i].raises]))

trigger_event_propagating(cbs, event_type) ==
    IF event_type \in DOMAIN cbs
    THEN IF \E i \in 1..Len(cbs[event_type]) : cbs[event_type][i].raises
         THEN Triggered(<<>>, "Exception")
         ELSE call_callbacks(cbs[event_type], 1, <<>>)
    ELSE Triggered(<<>>, "none")

trigger_event(cbs, event_type) ==
    IF event_type \in DOMAIN cbs
    THEN call_callbacks(cbs[event_type], 1, <<>>)
    ELSE Triggered(<<>>, "none")

RECURSIVE TotalActions(_, _)
TotalActions(ags, i) ==
    IF i \notin DOMAIN ags THEN 0
    ELSE ags[i].total_actions + TotalActions(ags, i + 1)

\* update_simulation_statistics, the advance of total_time and the
\* simulation_update event
finish_step(s) ==
    LET st == [s.stats EXCEPT !.total_actions = TotalActions(s.agents, 0),
                              !.pattern_discoveries = Len(s.model.patterns),
                              !.total_time = @ + time_step]
    IN  [s EXCEPT !.stats = st,
                  !.events = Append(@, [type |-> "simulation_update",
                                        time |-> st.total_time])]

\* The phases of step() after the social interactions; a phase runs only if
\* no earlier phase raised
suggestions_phase(s, who, duration) ==
    IF s.raised # "none" THEN s
    ELSE apply_behavior_model_suggestions(s, who, day_fraction, duration)

evolution_phase(s, rolled) ==
    IF s.raised # "none" THEN s ELSE evolve_agents(s, rolled)

patterns_phase(s, labels, choices) ==
    IF s.raised # "none" THEN s
    ELSE discover_and_evolve(s, day_fraction, labels, choices)

statistics_phase(s) ==
    IF s.raised # "none" THEN s ELSE finish_step(s)

\* step(), first part: the environment update, the agents' updates and the
\* location phase
step_agents(s0, decisions, durations) ==
    update_agent_locations(
        update_agents([s0 EXCEPT !.social_network = environment_update(@),
                                 !.events = <<>>, !.raised = "none"],
                      0, decisions, durations),
        0)

\* step(), the phases after the social interactions
step_rest_statistics_first(s4, who, duration, rolled, labels, choices) ==
    patterns_phase(
        statistics_phase(
            evolution_phase(suggestions_phase(s4, who, duration), rolled)),
        labels, choices)

step_rest(s4, who, duration, rolled, labels, choices) ==
    statistics_phase(
        patterns_phase(
            evolution_phase(suggestions_phase(s4, who, duration), rolled),
            labels, choices))

----------------------------------------------------------------------------
(* States the model starts from *)

Call(op, action, dt, success, raised) ==
    [op |-> op, action |-> action, dt |-> dt, success |-> success,
     raised |-> raised]

NoCall == Call("none", "none", 0, FALSE, "none")

\* Draws of VirtualHuman.__init__ at the two ends of their uniform ranges
FreshDraws ==
    { [hunger |-> 2000, energy |-> 6000, happiness |-> 4000,
       social_need |-> 2000, money |-> 10000, mood |-> 3000,
       discipline |-> 20, sociability |-> 20, ambition |-> 20,
       agreeableness |-> 20, habit |-> 100],
      [hunger |-> 5000, energy |-> 9000, happiness |-> 7000,
       social_need |-> 5000, money |-> 50000, mood |-> 7000,
       discipline |-> 80, sociability |-> 80, ambition |-> 80,
       agreeableness |-> 80, habit |-> 300] }

\* Need, money and mood values of an agent later in its life: the scenario
\* hunger 50 / money 10, a depleted agent, and an agent that sits exactly on
\* the feasibility thresholds of perform_action
LaterDraws ==
    { [hunger |-> 5000, energy |-> 5000, happiness |-> 5000,
       social_need |-> 5000, money |-> 1000, mood |-> 5000,
       discipline |-> 50, sociability |-> 50, ambition |-> 50,
       agreeableness |-> 50, habit |-> 200],
      [hunger |-> 9500, energy |-> 2010, happiness |-> 100,
       social_need |-> 9900, money |-> 500, mood |-> 100,
       discipline |-> 50, sociability |-> 80, ambition |-> 20,
       agreeableness |-> 50, habit |-> 0],
      [hunger |-> 1000, energy |-> 9000, happiness |-> 9990,
       social_need |-> 500, money |-> 499, mood |-> 9900,
       discipline |-> 50, sociability |-> 20, ambition |-> 80,
       agreeableness |-> 50, habit |-> 1000] }

\* Lengths of the earlier life an agent of the agent specification may have
\* had: 0, one record short of the 10 evolve_behavior asks for, and one
\* record short of a full memory
HistoryLens == {0, 9, 99}

IdleNeed == NewNeed(0, 0)

IdleHabit == NewHabit(0)

\* No thread runs run(), nobody asked for the state
IdleRun ==
    /\ running = FALSE
    /\ run_pc = "none"
    /\ stop_called = FALSE
    /\ snapshot = <<>>
    /\ between_steps = <<>>

IdleEngine ==
    /\ occupants = <<>>
    /\ social_network = <<>>
    /\ patterns = <<>>
    /\ pattern_counter = 0
    /\ stats = <<>>
    /\ paused = FALSE
    /\ IdleRun
    /\ events = <<>>
    /\ day_fraction = 50
    /\ file = MissingFile
    /\ event_callbacks = <<>>
    /\ delivered = <<>>

----------------------------------------------------------------------------
(* Specification of one Need object *)

InitNeed ==
    /\ need \in {NewNeed(v, r) : v \in {0, 5000, 10000}, r \in {8, 20}}
    /\ habit = IdleHabit
    /\ agents = <<>>
    /\ clock = 1
    /\ calls = 0
    /\ history = 0
    /\ last_call = NoCall
    /\ IdleEngine

CallNeedUpdate ==
    \E dt \in DtSet \cup {0} :
        /\ need' = Need_update(need, dt)
        /\ last_call' = Call("Need.update", "none", dt, TRUE, "none")
        /\ UNCHANGED <<habit, agents, clock, calls, history, engineVars>>

\* satisfy(0.1) is the amount the engine passes; 25.0 is a large amount
CallNeedSatisfy ==
    \E amount \in {0, 10, 2500} :
        /\ need' = Need_satisfy(need, amount)
        /\ last_call' = Call("Need.satisfy", "none", amount, TRUE, "none")
        /\ UNCHANGED <<habit, agents, clock, calls, history, engineVars>>

NextNeed == CallNeedUpdate \/ CallNeedSatisfy

SpecNeed == InitNeed /\ [][NextNeed]_vars

----------------------------------------------------------------------------
(* Specification of one Habit object *)

MaxAttempts == 12

InitHabit ==
    /\ habit \in {NewHabit(s) : s \in {0, 3, 100, 300, 995, 1000}}
    /\ need = IdleNeed
    /\ agents = <<>>
    /\ clock = 1
    /\ calls = 0
    /\ history = 0
    /\ last_call = NoCall
    /\ IdleEngine

CallReinforce ==
    \E success \in BOOLEAN :
        /\ habit.total_attempts < MaxAttempts
        /\ habit' = Habit_reinforce(habit, success)
        /\ last_call' = Call("Habit.reinforce", "none", 0, success, "none")
        /\ UNCHANGED <<need, agents, clock, calls, history, engineVars>>

NextHabit == CallReinforce

SpecHabit == InitHabit /\ [][NextHabit]_vars

----------------------------------------------------------------------------
(* Specification of one agent driven through its public operations *)

InitAgent ==
    /\ \E d \in FreshDraws \cup LaterDraws :
         /\ agents = [i \in {0} |-> NewAgent(0, d)]
         /\ history \in IF d.money = 10000 THEN HistoryLens ELSE {0}
    /\ clock = 1
    /\ need = IdleNeed
    /\ habit = IdleHabit
    /\ calls = 0
    /\ last_call = NoCall
    /\ IdleEngine

\* The agent's earlier life: update(1.0) calls that decide the action kinds in
\* enum order, each with the duration 1.0
History ==
    LET chosen == ActionOrder[(agents[0].total_actions % 5) + 1]
        r == VirtualHuman_update(agents[0], 10, chosen, 10, clock)
    IN  /\ history > 0
        /\ agents' = [agents EXCEPT ![0] = r.agent]
        /\ clock' = clock + 1
        /\ history' = history - 1
        /\ last_call' = Call("update", chosen, 10, r.success, r.raised)
        /\ UNCHANGED <<runVars, need, habit, calls, engineVars>>

CallUpdateNeeds ==
    \E dt \in DtSet :
        /\ history = 0
        /\ calls < MaxCalls
        /\ agents' = [agents EXCEPT ![0] = update_needs(agents[0], dt)]
        /\ calls' = calls + 1
        /\ last_call' = Call("update_needs", "none", dt, TRUE, "none")
        /\ UNCHANGED <<runVars, need, habit, clock, history, engineVars>>

CallPerformAction ==
    \E action \in ActionType, dt \in DtSet :
        LET r == perform_action(agents[0], action, dt, clock)
        IN  /\ history = 0
            /\ calls < MaxCalls
            /\ agents' = [agents EXCEPT ![0] = r.agent]
            /\ clock' = clock + 1
            /\ calls' = calls + 1
            /\ last_call' = Call("perform_action", action, dt, r.success, r.raised)
            /\ UNCHANGED <<runVars, need, habit, history, engineVars>>

CallUpdate ==
    \E dt \in DtSet, duration \in DurationSet :
        \E chosen \in decide_action(agents[0]) :
            LET r == VirtualHuman_update(agents[0], dt, chosen, duration, clock)
            IN  /\ history = 0
                /\ calls < MaxCalls
                /\ agents' = [agents EXCEPT ![0] = r.agent]
                /\ clock' = IF r.decided THEN clock + 1 ELSE clock
                /\ calls' = calls + 1
                /\ last_call' =
                     Call("update", IF r.decided THEN chosen ELSE "none", dt,
                          r.success, r.raised)
                /\ UNCHANGED <<runVars, need, habit, history, engineVars>>

CallEvolveBehavior ==
    LET r == evolve_behavior(agents[0])
    IN  /\ history = 0
        /\ calls < MaxCalls
        /\ agents' = [agents EXCEPT ![0] = r.agent]
        /\ calls' = calls + 1
        /\ last_call' = Call("evolve_behavior", "none", 0, TRUE, r.raised)
        /\ UNCHANGED <<runVars, need, habit, clock, history, engineVars>>

NextAgent ==
    \/ History
    \/ CallUpdateNeeds
    \/ CallPerformAction
    \/ CallUpdate
    \/ CallEvolveBehavior

SpecAgent == InitAgent /\ [][NextAgent]_vars

----------------------------------------------------------------------------
(* Specification of the engine's event callbacks *)

MaxCallbacks == 3

InitEvents ==
    /\ need = IdleNeed
    /\ habit = IdleHabit
    /\ agents = <<>>
    /\ clock = 1
    /\ calls = 0
    /\ history = 0
    /\ last_call = NoCall
    /\ occupants = <<>>
    /\ social_network = <<>>
    /\ patterns = <<>>
    /\ pattern_counter = 0
    /\ stats = <<>>
    /\ paused = FALSE
    /\ IdleRun
    /\ events = <<>>
    /\ day_fraction = 50
    /\ file = MissingFile
    /\ event_callbacks = NewCallbacks
    /\ delivered = <<>>

\* add_event_callback; callbacks are numbered in the order of registration
CallAddEventCallback ==
    \E event_type \in EventKinds \cup {"unknown"}, raises \in BOOLEAN :
        /\ calls < MaxCallbacks
        /\ event_callbacks' =
              add_event_callback(event_callbacks, event_type,
                                 Callback(calls, raises))
        /\ calls' = calls + 1
        /\ last_call' = Call("add_event_callback", event_type, 0, TRUE, "none")
        /\ UNCHANGED <<runVars, need, habit, agents, clock, history, occupants,
                       social_network, patterns, pattern_counter, stats,
                       paused, events, day_fraction, file, delivered>>

CallTriggerEvent ==
    \E event_type \in EventKinds \cup {"unknown"} :
        /\ delivered' = trigger_event(event_callbacks, event_type).delivered
        /\ last_call' =
              Call("trigger_event", event_type, 0, TRUE,
                   trigger_event(event_callbacks, event_type).raised)
        /\ UNCHANGED <<runVars, need, habit, agents, clock, calls, history, occupants,
                       social_network, patterns, pattern_counter, stats,
                       paused, events, day_fraction, file, event_callbacks>>

NextEvents == CallAddEventCallback \/ CallTriggerEvent

SpecEvents == InitEvents /\ [][NextEvents]_vars

----------------------------------------------------------------------------
(* What a step can draw *)

Decisions(ags) ==
    {d \in [DOMAIN ags -> ActionType] :
        \A i \in DOMAIN ags :
            d[i] \in IF ags[i].action_duration <= 0
                     THEN decide_action(ags[i]) ELSE {"idle"}}

Durations(ags) ==
    {d \in [DOMAIN ags -> DurationSet] :
        \A i \in DOMAIN ags : ags[i].action_duration > 0 => d[i] = 10}

FiredChoices(s) ==
    {0} \cup {k \in 1..Len(SocialPairs(s.agents, s.occupants)) :
                 CanInteract(s.agents, SocialPairs(s.agents, s.occupants)[k])}

WhoChoices(s) == {-1} \cup Suggestible(s, day_fraction)

\* The rolls of the habit-evolution loop that make a difference: nobody, or an
\* agent whose evolve_behavior gets past its length check
RolledChoices(s) ==
    {{}} \cup {{i} : i \in {j \in DOMAIN s.agents :
                                Len(s.agents[j].memory) >= 10}}

LabelChoices(s) ==
    LET ids == {i \in DOMAIN s.agents : Len(s.agents[i].memory) > 5}
        n_clusters == Min(5, Cardinality(ids) \div 2)
    IN  IF Cardinality(DOMAIN s.agents) >= 3 /\ Cardinality(ids) >= 3
           /\ n_clusters >= 2
           /\ IntTime(s) % 50 = 0
        THEN [ids -> 0..(n_clusters - 1)]
        ELSE {<<>>}

MutationSets(s) ==
    IF IntTime(s) % 100 = 0 /\ SuccessfulPatterns(s.model.patterns) # {}
    THEN [1..Min(3, Cardinality(SuccessfulPatterns(s.model.patterns)))
            -> MutationChoices]
    ELSE {<<>>}

----------------------------------------------------------------------------
(* Specification of the engine *)

\* A store as load_patterns reads it from behavior_patterns.json: one
\* established pattern that succeeds 7 times in 10 and one established,
\* ineffective one
LoadedStore ==
    << [BehaviorPattern(<<"pattern", 0, 0>>,
                        [hunger |-> 2025, energy |-> 5990, happiness |-> 3990,
                         social_need |-> 2005, time_of_day |-> 50],
                        <<"eat", "work", "sleep">>, 7000, 10)
          EXCEPT !.effectiveness_history =
                    <<TRUE, TRUE, TRUE, TRUE, TRUE, TRUE, TRUE, FALSE, FALSE, FALSE>>],
       [BehaviorPattern(<<"pattern", 1, 1>>,
                        [hunger |-> 8000, energy |-> 1000, happiness |-> 1000,
                         social_need |-> 8000, time_of_day |-> 25],
                        <<"socialize", "idle", "idle">>, 1000, 10)
          EXCEPT !.effectiveness_history =
                    <<FALSE, FALSE, FALSE, FALSE, FALSE, FALSE, FALSE, FALSE, FALSE, TRUE>>] >>

\* _create_agents: every agent starts in the one HOME location
InitOccupants ==
    [l \in DOMAIN LocationInfo |->
        IF l = "Home District" THEN [i \in 1..NumAgents |-> i - 1] ELSE <<>>]

Init ==
    /\ need = IdleNeed
    /\ habit = IdleHabit
    /\ \E d \in FreshDraws :
         agents = [i \in AgentIds |-> NewAgent(i, d)]
    /\ clock = 1
    /\ day_fraction \in TodSet
    /\ calls = 0
    /\ history = 0
    /\ last_call = NoCall
    /\ occupants = InitOccupants
    /\ social_network = <<>>
    /\ patterns \in {<<>>, LoadedStore}
    /\ pattern_counter = 0
    /\ stats = [total_time |-> 0, total_actions |-> 0,
                pattern_discoveries |-> 0, social_interactions |-> 0]
    /\ paused = FALSE
    /\ IdleRun
    /\ events = <<>>
    /\ file = MissingFile
    /\ event_callbacks = NewCallbacks
    /\ delivered = <<>>

Current ==
    StepState(agents, clock, occupants, social_network,
              [patterns |-> patterns, pattern_counter |-> pattern_counter],
              stats, events, "none")

\* step() on an engine that is not paused. An exception leaves step(), and
\* run() with it: the engine steps on only after a step that returned
StepLeaves(s8) ==
    /\ agents' = s8.agents
    /\ clock' = s8.clock
    /\ occupants' = s8.occupants
    /\ social_network' = s8.social_network
    /\ patterns' = s8.model.patterns
    /\ pattern_counter' = s8.model.pattern_counter
    /\ stats' = s8.stats
    /\ events' = s8.events
    /\ last_call' = Call("step", "none", time_step, s8.raised = "none",
                         s8.raised)

StepAfterInteractions(s4) ==
    \E who \in WhoChoices(s4) :
    \E duration \in IF who = -1 THEN {10} ELSE DurationSet :
    \E rolled \in RolledChoices(s4) :
    \E labels \in LabelChoices(s4) :
    \E choices \in MutationSets(s4) :
        StepLeaves(step_rest(s4, who, duration, rolled, labels, choices))

StepAfterLocations(s3) ==
    \E fired \in FiredChoices(s3) :
        StepAfterInteractions(process_social_interactions(s3, fired))

Step ==
    /\ ~paused
    /\ calls < MaxSteps
    /\ last_call.raised = "none"
    /\ \E decisions \in Decisions(agents), durations \in Durations(agents) :
         StepAfterLocations(step_agents(Current, decisions, durations))
    /\ calls' = calls + 1
    /\ UNCHANGED <<runVars, need, habit, history, day_fraction, paused, file,
                   event_callbacks, delivered>>

\* step() on a paused engine returns at once
StepPaused ==
    /\ paused
    /\ calls < MaxSteps
    /\ calls' = calls + 1
    /\ last_call' = Call("step", "paused", time_step, TRUE, "none")
    /\ UNCHANGED <<runVars, need, habit, agents, clock, history, day_fraction, occupants,
                   social_network, patterns, pattern_counter, stats, paused,
                   events, file, event_callbacks, delivered>>

Pause ==
    /\ ~paused
    /\ paused' = TRUE
    /\ UNCHANGED <<runVars, need, habit, agents, clock, calls, history, last_call,
                   day_fraction, occupants, social_network, patterns,
                   pattern_counter, stats, events, file, event_callbacks,
                   delivered>>

Resume ==
    /\ paused
    /\ paused' = FALSE
    /\ UNCHANGED <<runVars, need, habit, agents, clock, calls, history, last_call,
                   day_fraction, occupants, social_network, patterns,
                   pattern_counter, stats, events, file, event_callbacks,
                   delivered>>

Next == Step \/ StepPaused \/ Pause \/ Resume

Spec == Init /\ [][Next]_vars

----------------------------------------------------------------------------
(* Specification of run() on the thread of run_simulation_async, with the
   calls the web application makes from its own threads *)

\* run(max_time): the simulated time at which run() leaves its loop (1/10)
MaxTime == 2
\* Calls the web application makes during one run
MaxRunCalls == 2

\* VirtualHuman.get_status
get_status(a) ==
    [id |-> a.id, current_action |-> a.current_action,
     needs |-> [k \in NeedNames |-> a.needs[k].value],
     money |-> a.money, mood |-> a.mood, position |-> a.position,
     total_actions |-> a.total_actions]

\* SimulationEngine.get_simulation_state: it reads the fields one after the
\* other and takes no lock; here it reads them all at once
get_simulation_state(isrunning, ispaused, ags, store, st) ==
    [running |-> isrunning, paused |-> ispaused, time |-> st.total_time,
     agents |-> [i \in DOMAIN ags |-> get_status(ags[i])],
     total_patterns |-> Len(store), statistics |-> st]

\* What a caller can see of the engine once a step has returned
BetweenSteps(ags, store, st) ==
    [agents |-> ags, patterns |-> store, stats |-> st]

\* start_simulation: a new engine and a started thread that has not yet
\* executed the first statement of run()
InitRun ==
    /\ need = IdleNeed
    /\ habit = IdleHabit
    /\ \E d \in FreshDraws :
         agents = [i \in AgentIds |-> NewAgent(i, d)]
    /\ clock = 1
    /\ day_fraction = 50
    /\ calls = 0
    /\ history = 0
    /\ last_call = NoCall
    /\ occupants = InitOccupants
    /\ social_network = <<>>
    /\ patterns \in {<<>>, LoadedStore}
    /\ pattern_counter = 0
    /\ stats = [total_time |-> 0, total_actions |-> 0,
                pattern_discoveries |-> 0, social_interactions |-> 0]
    /\ paused = FALSE
    /\ events = <<>>
    /\ file = MissingFile
    /\ event_callbacks = NewCallbacks
    /\ delivered = <<>>
    /\ running = FALSE
    /\ run_pc = "start"
    /\ stop_called = FALSE
    /\ snapshot = <<>>
    /\ between_steps = BetweenSteps(agents, patterns, stats)

\* run(): self.running = True
RunEnters ==
    /\ run_pc = "start"
    /\ running' = TRUE
    /\ run_pc' = "loop"
    /\ UNCHANGED <<need, habit, agents, clock, calls, history, last_call,
                   occupants, social_network, patterns, pattern_counter, stats,
                   paused, events, day_fraction, file, event_callbacks,
                   delivered, stop_called, snapshot, between_steps>>

\* run(): while self.running
RunLoopTest ==
    /\ run_pc = "loop"
    /\ run_pc' = IF running THEN "body" ELSE "finally"
    /\ UNCHANGED <<need, habit, agents, clock, calls, history, last_call,
                   occupants, social_network, patterns, pattern_counter, stats,
                   paused, events, day_fraction, file, event_callbacks,
                   delivered, running, stop_called, snapshot, between_steps>>

\* run(): a paused engine sleeps and tests again
RunSleepsPaused ==
    /\ run_pc = "body"
    /\ paused
    /\ run_pc' = "loop"
    /\ UNCHANGED <<need, habit, agents, clock, calls, history, last_call,
                   occupants, social_network, patterns, pattern_counter, stats,
                   paused, events, day_fraction, file, event_callbacks,
                   delivered, running, stop_called, snapshot, between_steps>>

\* What a part of step() leaves in the engine, and where run() goes on
RunWrites(s, pc) ==
    /\ agents' = s.agents
    /\ clock' = s.clock
    /\ occupants' = s.occupants
    /\ social_network' = s.social_network
    /\ patterns' = s.model.patterns
    /\ pattern_counter' = s.model.pattern_counter
    /\ stats' = s.stats
    /\ events' = s.events
    /\ run_pc' = IF s.raised = "none" THEN pc ELSE "unwinding"
    /\ between_steps' =
          IF s.raised = "none" /\ pc \in {"loop", "finally"}
          THEN BetweenSteps(s.agents, s.model.patterns, s.stats)
          ELSE between_steps
    /\ UNCHANGED <<need, habit, calls, history, last_call, paused,
                   day_fraction, file, event_callbacks, delivered, running,
                   stop_called, snapshot>>

\* step(), up to update_agent_locations
RunStepAgents ==
    /\ run_pc = "body"
    /\ ~paused
    /\ \E decisions \in Decisions(agents), durations \in Durations(agents) :
         RunWrites(step_agents(Current, decisions, durations), "interactions")

\* step(): process_social_interactions
RunStepInteractions ==
    /\ run_pc = "interactions"
    /\ \E fired \in FiredChoices(Current) :
         RunWrites(process_social_interactions(Current, fired), "rest")

\* Where run() goes on after a step: `if max_time and total_time >= max_time`
AfterStep(s) == IF s.stats.total_time >= MaxTime THEN "finally" ELSE "loop"

RunStepEnds(s8) == RunWrites(s8, AfterStep(s8))

\* step(), from apply_behavior_model_suggestions to its end
RunStepRest ==
    /\ run_pc = "rest"
    /\ \E who \in WhoChoices(Current) :
       \E duration \in IF who = -1 THEN {10} ELSE DurationSet :
       \E rolled \in RolledChoices(Current) :
       \E labels \in LabelChoices(Current) :
       \E choices \in MutationSets(Current) :
           RunStepEnds(step_rest(Current, who, duration, rolled, labels,
                                 choices))

\* run(): the finally block, reached by leaving the loop or by an exception
RunFinally ==
    /\ run_pc \in {"finally", "unwinding"}
    /\ running' = FALSE
    /\ file' = save_patterns(patterns)
    /\ run_pc' = IF run_pc = "finally" THEN "done" ELSE "raised"
    /\ UNCHANGED <<need, habit, agents, clock, calls, history, last_call,
                   occupants, social_network, patterns, pattern_counter, stats,
                   paused, events, day_fraction, event_callbacks, delivered,
                   stop_called, snapshot, between_steps>>

\* stop_simulation: simulation.stop()
CallStop ==
    /\ calls < MaxRunCalls
    /\ running' = FALSE
    /\ stop_called' = TRUE
    /\ calls' = calls + 1
    /\ last_call' = Call("stop", "none", 0, TRUE, "none")
    /\ UNCHANGED <<need, habit, agents, clock, history, occupants,
                   social_network, patterns, pattern_counter, stats, paused,
                   events, day_fraction, file, event_callbacks, delivered,
                   run_pc, snapshot, between_steps>>

\* get_simulation_state of the web application
CallGetSimulationState ==
    /\ calls < MaxRunCalls
    /\ snapshot' = get_simulation_state(running, paused, agents, patterns, stats)
    /\ calls' = calls + 1
    /\ last_call' = Call("get_simulation_state", "none", 0, TRUE, "none")
    /\ UNCHANGED <<need, habit, agents, clock, history, occupants,
                   social_network, patterns, pattern_counter, stats, paused,
                   events, day_fraction, file, event_callbacks, delivered,
                   running, run_pc, stop_called, between_steps>>

\* pause_simulation: resume() on a paused engine, pause() on another
CallPauseSimulation ==
    /\ calls < MaxRunCalls
    /\ paused' = ~paused
    /\ calls' = calls + 1
    /\ last_call' = Call("pause_simulation", "none", 0, TRUE, "none")
    /\ UNCHANGED <<need, habit, agents, clock, history, occupants,
                   social_network, patterns, pattern_counter, stats, events,
                   day_fraction, file, event_callbacks, delivered, running,
                   run_pc, stop_called, snapshot, between_steps>>

NextRun ==
    \/ RunEnters
    \/ RunLoopTest
    \/ RunSleepsPaused
    \/ RunStepAgents
    \/ RunStepInteractions
    \/ RunStepRest
    \/ RunFinally
    \/ CallStop
    \/ CallGetSimulationState
    \/ CallPauseSimulation

SpecRun == InitRun /\ [][NextRun]_vars

\* The thread of run() is scheduled again and again until run() is left
RunAdvances ==
    /\ run_pc \notin {"done", "raised"}
    /\ run_pc' \in {"loop", "body", "interactions", "rest", "finally",
                    "unwinding", "done", "raised"} \ {run_pc}

SpecRunFair == InitRun /\ [][NextRun]_vars /\ WF_run_pc(RunAdvances)

----------------------------------------------------------------------------
(* Specification of an agent under repeated update(dt) calls with one dt *)

\* Decisions the agent makes before the calls end
MaxDecisions == 2

\* A new agent and the dt of the calls to come
InitCycle ==
    /\ \E d \in FreshDraws : agents = [i \in {0} |-> NewAgent(0, d)]
    /\ \E dt \in DtSet : last_call = Call("none", "none", dt, FALSE, "none")
    /\ history = 0
    /\ clock = 1
    /\ need = IdleNeed
    /\ habit = IdleHabit
    /\ calls = 0
    /\ IdleEngine

\* update(dt) with the dt of the call before. The calls end once the last
\* action decided has run out
CycleUpdated(r, chosen) ==
    /\ agents' = [agents EXCEPT ![0] = r.agent]
    /\ clock' = IF r.decided THEN clock + 1 ELSE clock
    /\ calls' = calls + 1
    /\ last_call' = Call("update", IF r.decided THEN chosen ELSE "none",
                         last_call.dt, r.success, r.raised)
    /\ UNCHANGED <<need, habit, history, engineVars>>

CycleUpdate ==
    /\ agents[0].total_actions < MaxDecisions \/ agents[0].action_duration > 0
    /\ \E duration \in DurationSet, chosen \in decide_action(agents[0]) :
         CycleUpdated(VirtualHuman_update(agents[0], last_call.dt, chosen,
                                          duration, clock),
                      chosen)

NextCycle == CycleUpdate

\* The caller goes on calling update while the cycle is not over
CycleCalled ==
    /\ agents[0].total_actions < MaxDecisions \/ agents[0].action_duration > 0
    /\ calls' = calls + 1

SpecCycle == InitCycle /\ [][NextCycle]_vars /\ WF_calls(CycleCalled)

----------------------------------------------------------------------------
(* Specification of the agent's utilities *)

MaxUtilityCalls == 2

RoutineCycles == 36

InitUtility ==
    /\ \E d \in FreshDraws : agents = [i \in {0} |-> NewAgent(0, d)]
    /\ clock = 1
    /\ history \in {0, 4 * RoutineCycles}
    /\ need = IdleNeed
    /\ habit = IdleHabit
    /\ calls = 0
    /\ last_call = NoCall
    /\ IdleEngine

\* A call of calculate_action_utility with the noise left out
UtilityCall(action, utility) ==
    [op |-> "calculate_action_utility", action |-> action, dt |-> 0,
     success |-> TRUE, raised |-> "none", utility |-> utility]

CallCalculateActionUtility ==
    \E action \in ActionType :
        /\ last_call' = UtilityCall(action,
                                    pre_noise_utility(agents[0], action,
                                                      day_fraction))
        /\ UNCHANGED <<runVars, need, habit, agents, clock, calls, history, engineVars>>

\* The agent's earlier life: rounds of work, work, work, sleep, each
\* performed with the engine's time step
Routine ==
    /\ history > 0
    /\ history' = history - 1
    /\ agents' = [agents EXCEPT
                    ![0] = perform_action(@, IF history % 4 = 1 THEN "sleep"
                                             ELSE "work",
                                          time_step, clock).agent]
    /\ clock' = clock + 1
    /\ last_call' = Call("perform_action",
                         IF history % 4 = 1 THEN "sleep" ELSE "work",
                         time_step, TRUE, "none")
    /\ UNCHANGED <<runVars, need, habit, calls, engineVars>>

\* The agent goes on living between the calls
UtilityPerformAction ==
    \E action \in ActionType :
        /\ history = 0
        /\ calls < MaxUtilityCalls
        /\ calls' = calls + 1
        /\ agents' = [agents EXCEPT
                        ![0] = perform_action(@, action, time_step, clock).agent]
        /\ clock' = clock + 1
        /\ last_call' = Call("perform_action", action, time_step, TRUE, "none")
        /\ UNCHANGED <<runVars, need, habit, history, engineVars>>

NextUtility == Routine \/ CallCalculateActionUtility \/ UtilityPerformAction

SpecUtility == InitUtility /\ [][NextUtility]_vars

----------------------------------------------------------------------------
(* Specification of the behaviour model driven through its public operations *)

MaxModelCalls == 3

ModelAgents == 4

\* An agent after its first k actions, performed in enum order with the
\* engine's time step
RECURSIVE Lived(_, _)
Lived(a, k) ==
    IF k = 0 THEN a
    ELSE perform_action(Lived(a, k - 1), ActionOrder[((k - 1) % 5) + 1],
                        time_step, k).agent

\* n agents with k memory records each, drawn alternately from the two ends
\* of the constructor's ranges
Population(n, k) ==
    [i \in 0..(n - 1) |->
        Lived(NewAgent(i, CHOOSE d \in FreshDraws :
                              (d.money = 10000) <=> (i % 2 = 0)),
              k)]

\* Enough agents with 6 records each, the same with exactly 5 records each,
\* three agents with 6 records (one cluster at most) and two agents
Populations ==
    {Population(ModelAgents, 6), Population(ModelAgents, 5),
     Population(3, 6), Population(2, 6)}

\* Conditions as _create_pattern_from_cluster mines them from agents close to
\* agent a: a's needs, each off by 0.05, and the time of day
ConditionsNear(a, time_of_day) ==
    [k \in ConditionNames |->
        IF k = "time_of_day" THEN time_of_day ELSE a.needs[k].value + 5]

Pattern(pattern_id, conditions, actions, success_rate, usage_count, last_used, effectiveness_history) ==
    [BehaviorPattern(pattern_id, conditions, actions, success_rate, usage_count)
     EXCEPT !.last_used = last_used,
            !.effectiveness_history = effectiveness_history]

\* A store later in a run, after three discoveries: an established
\* successful pattern for the even agents, a successful pattern for the odd
\* agents that was used 4 times and not for 100 evolutions, and an
\* established ineffective pattern
LivedStore ==
    << Pattern(<<"pattern", 0, 0>>,
               ConditionsNear(Population(2, 6)[0], 50),
               <<"eat", "work", "sleep">>, 9000, 10, 3,
               <<TRUE, TRUE, TRUE, TRUE, TRUE, TRUE, TRUE, TRUE, TRUE, FALSE>>),
       Pattern(<<"pattern", 1, 1>>,
               ConditionsNear(Population(2, 6)[1], 50),
               <<"sleep", "idle", "idle">>, 7500, 4, 100,
               <<TRUE, TRUE, TRUE, FALSE>>),
       Pattern(<<"pattern", 2, 0>>,
               [k \in ConditionNames |-> 50],
               <<"work", "work", "work">>, 1000, 10, 7,
               <<FALSE, FALSE, FALSE, FALSE, FALSE, FALSE, FALSE, FALSE, FALSE,
                 TRUE>>) >>

\* The store a run saved that had loaded an established successful pattern
\* and, with its pattern_counter at 0, made a mutation of it
PreviousRunStore ==
    create_pattern_mutation(
        [patterns |-> << Pattern(<<"pattern", 2, 0>>,
                                 ConditionsNear(Population(2, 6)[0], 50),
                                 <<"eat", "work", "sleep">>, 9000, 10, 0,
                                 <<TRUE, TRUE, TRUE, TRUE, TRUE, TRUE, TRUE,
                                   TRUE, TRUE, FALSE>>) >>,
         pattern_counter |-> 0],
        Pattern(<<"pattern", 2, 0>>,
                ConditionsNear(Population(2, 6)[0], 50),
                <<"eat", "work", "sleep">>, 9000, 10, 0,
                <<TRUE, TRUE, TRUE, TRUE, TRUE, TRUE, TRUE, TRUE, TRUE, FALSE>>),
        [coin |-> TRUE, delta |-> [k \in ConditionNames |-> 10],
         swap |-> <<1, 2>>]).patterns

\* That store as load_patterns reads it at the start of the next run, the
\* mutation used 7 times before it was saved
ReloadedStore ==
    [PreviousRunStore EXCEPT
        ![2].usage_count = 7,
        ![2].effectiveness_history = <<TRUE, TRUE, FALSE, TRUE, TRUE, FALSE, TRUE>>,
        ![2].success_rate = 7142]

\* A JSON file whose second entry names an action that is no ActionType
UnknownActionFile ==
    FileOf("json",
           << SavedEntry(LoadedStore[1]),
              [SavedEntry(LoadedStore[2])
               EXCEPT !.data.actions = <<JsonString("fly")>>] >>)

\* A JSON file whose only entry lacks usage_count
MissingFieldFile ==
    FileOf("json",
           << [pattern_id |-> <<"pattern", 2, 0>>,
               data |-> [conditions |-> LoadedStore[1].conditions,
                         actions |-> <<JsonString("eat")>>,
                         success_rate |-> 7000]] >>)

\* The store, its pattern_counter and the file a run of the model starts with
ModelStarts ==
    { [patterns |-> <<>>, pattern_counter |-> 0, file |-> InvalidJsonFile],
      [patterns |-> LoadedStore, pattern_counter |-> 0, file |-> UnknownActionFile],
      [patterns |-> LivedStore, pattern_counter |-> 3, file |-> MissingFile],
      [patterns |-> ReloadedStore, pattern_counter |-> 0, file |-> MissingFieldFile] }

InitModel ==
    /\ need = IdleNeed
    /\ habit = IdleHabit
    /\ agents \in Populations
    /\ clock = 1
    /\ calls = 0
    /\ history = 0
    /\ last_call = NoCall
    /\ occupants = <<>>
    /\ social_network = <<>>
    /\ \E m \in ModelStarts :
         /\ patterns = m.patterns
         /\ pattern_counter = m.pattern_counter
         /\ file = m.file
    /\ stats = <<>>
    /\ paused = FALSE
    /\ IdleRun
    /\ events = <<>>
    /\ day_fraction = 50
    /\ event_callbacks = <<>>
    /\ delivered = <<>>

\* A call of the behaviour model: the operation, what it returned, the agent
\* and the cluster labels it was given, and the exception it raised
ModelCall(op, result, agent, labels, raised) ==
    [op |-> op, action |-> result, dt |-> 0, success |-> TRUE,
     raised |-> raised, agent |-> agent, labels |-> labels]

CurrentModel == [patterns |-> patterns, pattern_counter |-> pattern_counter]

\* The agents a run of the model asks suggestions for
Suggestees == {i \in DOMAIN agents : i < 2}

\* suggest_action: the exploration roll returns None before anything is read
SuggestActionReturns(i, r) ==
    /\ patterns' = r.patterns
    /\ last_call' = ModelCall("suggest_action", r.action, i, <<>>, "none")

CallSuggestAction ==
    /\ calls < MaxModelCalls
    /\ calls' = calls + 1
    /\ \E i \in Suggestees, explore \in BOOLEAN :
         SuggestActionReturns(
            i,
            IF explore THEN [patterns |-> patterns, action |-> "None"]
            ELSE suggest_action(patterns, agents[i], day_fraction))
    /\ UNCHANGED <<runVars, need, habit, agents, clock, history, occupants,
                   social_network, pattern_counter, stats, paused, events,
                   day_fraction, file, event_callbacks, delivered>>

ModelReturns(op, labels, m) ==
    /\ patterns' = m.patterns
    /\ pattern_counter' = m.pattern_counter
    /\ last_call' = ModelCall(op, "None", -1, labels, "none")

\* The mutation draws a run of the model tries: no mutation, a shift of every
\* condition, and a shift with a swap of the first two actions
ModelMutationSets ==
    IF SuccessfulPatterns(patterns) = {} THEN {<<>>}
    ELSE [1..Min(3, Cardinality(SuccessfulPatterns(patterns))) ->
             {c \in MutationChoices :
                 \/ c = NoMutation
                 \/ c.delta["hunger"] = 10 /\ c.swap \in {<<0, 0>>, <<1, 2>>}}]

CallEvolvePatterns ==
    /\ calls < MaxModelCalls
    /\ calls' = calls + 1
    /\ \E choices \in ModelMutationSets :
         ModelReturns("evolve_patterns", <<>>,
                      evolve_patterns(CurrentModel, choices))
    /\ UNCHANGED <<runVars, need, habit, agents, clock, history, occupants,
                   social_network, stats, paused, events, day_fraction, file,
                   event_callbacks, delivered>>

\* The labels KMeans can give the agents discover_patterns clusters; which
\* cluster is called 0 makes no difference to the patterns' conditions and
\* actions, so labels are taken in the order of the agents
ModelLabelChoices ==
    LET ids == {i \in DOMAIN agents : Len(agents[i].memory) > 5}
    IN  IF Cardinality(DOMAIN agents) >= 3 /\ Cardinality(ids) >= 3
           /\ Min(5, Cardinality(ids) \div 2) >= 2
        THEN {l \in [ids -> 0..(Min(5, Cardinality(ids) \div 2) - 1)] :
                 \A i, j \in ids : i < j => l[i] <= l[j]}
        ELSE {<<>>}

CallDiscoverPatterns ==
    /\ calls < MaxModelCalls
    /\ calls' = calls + 1
    /\ \E labels \in ModelLabelChoices :
         ModelReturns("discover_patterns", labels,
                      discover_patterns(CurrentModel, agents, day_fraction,
                                        labels))
    /\ UNCHANGED <<runVars, need, habit, agents, clock, history, occupants,
                   social_network, stats, paused, events, day_fraction, file,
                   event_callbacks, delivered>>

CallSavePatterns ==
    /\ calls < MaxModelCalls
    /\ calls' = calls + 1
    /\ file' = save_patterns(patterns)
    /\ last_call' = ModelCall("save_patterns", "None", -1, <<>>, "none")
    /\ UNCHANGED <<runVars, need, habit, agents, clock, history, occupants,
                   social_network, patterns, pattern_counter, stats, paused,
                   events, day_fraction, event_callbacks, delivered>>

LoadReturns(r) ==
    /\ patterns' = r.patterns
    /\ last_call' = ModelCall("load_patterns", "None", -1, <<>>, r.raised)

\* A new run: GenerativeBehaviorModel() and load_patterns, as
\* SimulationEngine.__init__ does
CallLoadPatterns ==
    /\ calls < MaxModelCalls
    /\ calls' = calls + 1
    /\ pattern_counter' = 0
    /\ LoadReturns(load_patterns(<<>>, file))
    /\ UNCHANGED <<runVars, need, habit, agents, clock, history, occupants,
                   social_network, stats, paused, events, day_fraction, file,
                   event_callbacks, delivered>>

NextModel ==
    \/ CallSuggestAction
    \/ CallEvolvePatterns
    \/ CallDiscoverPatterns
    \/ CallSavePatterns
    \/ CallLoadPatterns

SpecModel == InitModel /\ [][NextModel]_vars

----------------------------------------------------------------------------
(* Claims about Need, Habit and the agent's own operations *)

\* C2: after any sequence of Need.update(dt) and Need.satisfy(amount) calls
\* with dt >= 0 and amount >= 0 the need's value lies in [0, 100].
C2_NeedValueInRange == need.value >= 0 /\ need.value <= 10000

\* update has acted on a need whose decay exceeds what was left of its value
C2_Witness ==
    /\ last_call.op = "Need.update"
    /\ last_call.dt = 20
    /\ need.decay_rate = 20
    /\ need.value = 0

\* C3: in every state reachable through update_needs, perform_action and
\* update calls each of the agent's four need values lies in [0, 100].
C3_AgentNeedsInRange ==
    \A i \in DOMAIN agents : \A k \in NeedNames :
        agents[i].needs[k].value >= 0 /\ agents[i].needs[k].value <= 10000

\* WORK has driven energy to the floor
C3_Witness ==
    /\ last_call.op = "perform_action"
    /\ last_call.action = "work"
    /\ last_call.success
    /\ agents[0].needs.energy.value = 0

\* C4: an agent's money is >= 0 in every reachable state.
C4_MoneyNonNegative == \A i \in DOMAIN agents : agents[i].money >= 0

\* C5: an agent's mood stays in [0, 1] under any sequence of update_needs and
\* perform_action calls.
C5_MoodInRange ==
    \A i \in DOMAIN agents : agents[i].mood >= 0 /\ agents[i].mood <= 10000

\* a failed action has pushed the mood to the floor
C5_Witness ==
    /\ last_call.op \in {"perform_action", "update"}
    /\ last_call.action # "none"
    /\ ~last_call.success
    /\ agents[0].mood = 0

\* C6: a habit's strength lies in [0, 1] after any sequence of
\* reinforce(success) calls that starts from a strength in [0, 1].
C6_HabitStrengthInRange == habit.strength >= 0 /\ habit.strength <= 1000

\* a success has been reinforced on a habit that ends at full strength
C6_Witness ==
    /\ last_call.op = "Habit.reinforce"
    /\ last_call.success
    /\ habit.total_attempts >= 2
    /\ habit.strength = 1000

\* C7: get_success_rate is 0.5 when total_attempts = 0 and
\* success_count / total_attempts otherwise, and so always lies in [0, 1].
C7_SuccessRate ==
    LET r == Habit_get_success_rate(habit)
    IN  /\ r.den > 0
        /\ habit.total_attempts = 0 => 2 * r.num = r.den
        /\ habit.total_attempts > 0 =>
              r.num * habit.total_attempts = habit.success_count * r.den
        /\ 0 <= r.num /\ r.num <= r.den

\* three attempts, two of them successes
C7_Witness ==
    /\ last_call.op = "Habit.reinforce"
    /\ habit.total_attempts = 3
    /\ habit.success_count = 2

\* C8: perform_action(EAT, dt) on an agent with hunger > 10 and money >= 5
\* returns success, reduces hunger by exactly min(30 * dt, hunger) and deducts
\* exactly 5 * dt money; hunger 50, money 10, dt 1.0 gives hunger 20, money 5.
C8_EatExact ==
    [][ (/\ last_call'.op = "perform_action"
         /\ last_call'.action = "eat"
         /\ calls' = calls + 1
         /\ agents[0].needs.hunger.value > 1000
         /\ agents[0].money >= 500)
        => LET a == agents[0]
               b == agents'[0]
               dt == last_call'.dt
           IN  /\ last_call'.success
               /\ b.needs.hunger.value =
                    a.needs.hunger.value - Min(300 * dt, a.needs.hunger.value)
               /\ b.money = a.money - 50 * dt
               /\ (a.needs.hunger.value = 5000 /\ a.money = 1000 /\ dt = 10)
                    => (b.needs.hunger.value = 2000 /\ b.money = 500) ]_vars

\* the scenario: EAT for dt = 1.0 has left hunger 20 and money 5
C8_Witness ==
    /\ last_call.op = "perform_action"
    /\ last_call.action = "eat"
    /\ last_call.dt = 10
    /\ last_call.success
    /\ calls = 1
    /\ agents[0].needs.hunger.value = 2000
    /\ agents[0].money = 500

\* C9: perform_action never raises; when the feasibility precondition fails it
\* returns false, lowers mood by 0.05 (floored at 0), adds -0.1 to the
\* action's accumulated reward, counts the attempt, weakens the habit and
\* appends a memory record with success = false.
C9_FailureHandling ==
    [][ (last_call'.op = "perform_action" /\ calls' = calls + 1)
        => /\ last_call'.raised = "none"
           /\ ~last_call'.success =>
                LET a == agents[0]
                    b == agents'[0]
                    k == last_call'.action
                IN  /\ b.mood = Max(0, a.mood - 500)
                    /\ b.action_rewards[k] = a.action_rewards[k] - 1000
                    /\ b.action_counts[k] = a.action_counts[k] + 1
                    /\ k \in HabitActions
                    /\ b.habits[k].strength = Max(0, a.habits[k].strength - 5)
                    /\ b.habits[k].total_attempts = a.habits[k].total_attempts + 1
                    /\ b.habits[k].success_count = a.habits[k].success_count
                    /\ Len(b.memory) > 0
                    /\ b.memory[Len(b.memory)].action = k
                    /\ b.memory[Len(b.memory)].success = FALSE ]_vars

\* an infeasible SLEEP (energy not below 90) has been performed
C9_Witness ==
    /\ last_call.op = "perform_action"
    /\ last_call.action = "sleep"
    /\ ~last_call.success
    /\ last_call.raised = "none"
    /\ agents[0].memory # <<>>
    /\ ~agents[0].memory[Len(agents[0].memory)].success

\* C10: the memory never holds more than 100 records, and it is always the
\* last min(n, 100) of the n records appended so far, in order (record i of
\* the run carries timestamp i).
C10_MemoryLastHundred ==
    LET a == agents[0]
        n == clock - 1
        len == Len(a.memory)
    IN  /\ len <= MemoryLimit
        /\ len = Min(n, MemoryLimit)
        /\ \A i \in 1..len : a.memory[i].timestamp = n - len + i

\* a record has been appended to a full memory
C10_Witness ==
    /\ clock - 1 > MemoryLimit
    /\ last_call.op = "perform_action"
    /\ Len(agents[0].memory) = MemoryLimit

----------------------------------------------------------------------------
(* Specification of the engine later in a run, when discovery has agents
   with enough memory to work on *)

\* The agents some 50 time units into a run: each has made 6 decisions and is
\* in the middle of an action that lasts longer than the steps to come
LateAgents ==
    [i \in 0..(ModelAgents - 1) |->
        [Population(ModelAgents, 6)[i]
           EXCEPT !.current_action = "eat",
                  !.action_duration = 25,
                  !.total_actions = 6]]

\* The engine at accumulated time t (1/10) with no pattern found so far, its
\* agents where update_agent_locations put them
LateEngine(t) ==
    update_agent_locations(
        StepState(LateAgents, 7,
                  [l \in DOMAIN LocationInfo |->
                      IF l = "Home District"
                      THEN [i \in 1..ModelAgents |-> i - 1] ELSE <<>>],
                  <<>>, [patterns |-> <<>>, pattern_counter |-> 0],
                  [total_time |-> t, total_actions |-> 6 * ModelAgents,
                   pattern_discoveries |-> 0, social_interactions |-> 0],
                  <<>>, "none"),
        0)

\* One step before the accumulated time reaches 50.0 and 100.0
LateTimes == {499, 999}

InitLate ==
    /\ need = IdleNeed
    /\ habit = IdleHabit
    /\ \E t \in LateTimes :
         /\ agents = LateEngine(t).agents
         /\ occupants = LateEngine(t).occupants
         /\ stats = LateEngine(t).stats
    /\ clock = 7
    /\ day_fraction = 50
    /\ calls = 0
    /\ history = 0
    /\ last_call = NoCall
    /\ social_network = <<>>
    /\ patterns = <<>>
    /\ pattern_counter = 0
    /\ paused = FALSE
    /\ IdleRun
    /\ events = <<>>
    /\ file = MissingFile
    /\ event_callbacks = NewCallbacks
    /\ delivered = <<>>

SpecLate == InitLate /\ [][Next]_vars

----------------------------------------------------------------------------
(* Specification of the suggestions and the feedback on them *)

MaxEffectCalls == 3

\* A pattern after k reports of an outcome, every third of them a failure
RECURSIVE Seasoned(_, _)
Seasoned(p, k) ==
    IF k = 0 THEN p
    ELSE update_effectiveness(Seasoned(p, k - 1), k % 3 # 0)

\* A store some evolutions after its patterns were last suggested: two
\* patterns mined from agents like agent 0 that both start with EAT, the
\* first with k outcomes reported and the second with 5, and a pattern mined
\* from agents like agent 1 with none
EffectStore(k) ==
    << [Seasoned(BehaviorPattern(<<"pattern", 0, 0>>,
                                 ConditionsNear(Population(2, 6)[0], 50),
                                 <<"eat", "work", "sleep">>, 5000, 0),
                 k) EXCEPT !.last_used = 2],
       [Seasoned(BehaviorPattern(<<"pattern", 2, 0>>,
                                 ConditionsNear(Population(2, 6)[0], 50),
                                 <<"eat", "sleep", "idle">>, 5000, 0),
                 5) EXCEPT !.last_used = 4],
       [BehaviorPattern(<<"pattern", 1, 1>>,
                        ConditionsNear(Population(2, 6)[1], 50),
                        <<"sleep", "idle", "idle">>, 5000, 0)
        EXCEPT !.last_used = 4] >>

\* The same store after 111 evolve_patterns calls in which none of its
\* patterns was suggested: the established patterns are aged and stay, the
\* unused one was pruned
AgedStore ==
    [i \in 1..2 |-> [EffectStore(HistoryLimit - 1)[i] EXCEPT !.last_used = 111]]

InitEffect ==
    /\ need = IdleNeed
    /\ habit = IdleHabit
    /\ agents = Population(2, 6)
    /\ clock = 1
    /\ calls = 0
    /\ history = 0
    /\ last_call = NoCall
    /\ occupants = <<>>
    /\ social_network = <<>>
    /\ patterns \in {EffectStore(0), EffectStore(HistoryLimit - 1), AgedStore}
    /\ pattern_counter = 3
    /\ stats = <<>>
    /\ paused = FALSE
    /\ IdleRun
    /\ events = <<>>
    /\ day_fraction = 50
    /\ file = MissingFile
    /\ event_callbacks = <<>>
    /\ delivered = <<>>

CallUpdatePatternEffectiveness ==
    \E i \in DOMAIN agents, suggested_action \in {"eat", "sleep", "work"},
       success \in BOOLEAN :
        /\ calls < MaxEffectCalls
        /\ calls' = calls + 1
        /\ patterns' = update_pattern_effectiveness(patterns, agents[i],
                                                    day_fraction,
                                                    suggested_action, success)
        /\ last_call' = [ModelCall("update_pattern_effectiveness",
                                   suggested_action, i, <<>>, "none")
                         EXCEPT !.success = success]
        /\ UNCHANGED <<runVars, need, habit, agents, clock, history, occupants,
                       social_network, pattern_counter, stats, paused, events,
                       day_fraction, file, event_callbacks, delivered>>

NextEffect == CallUpdatePatternEffectiveness \/ CallSuggestAction

SpecEffect == InitEffect /\ [][NextEffect]_vars

----------------------------------------------------------------------------
(* Claims about the engine's step *)

\* C1: every call of step() on an unpaused simulation runs all its phases to
\* completion without raising and advances stats['total_time'] by exactly
\* time_step, also in a step where a social interaction fires or where
\* suggest_action returns an action.
C1_StepCompletes ==
    [][ (last_call'.op = "step" /\ calls' = calls + 1 /\ ~paused)
        => /\ last_call'.raised = "none"
           /\ stats'.total_time = stats.total_time + time_step ]_vars

----------------------------------------------------------------------------
(* Claims about the agent's update *)

\* C11: update(dt) decides and performs a new action only in a call that
\* starts with action_duration <= 0; in a call that starts with
\* action_duration > 0 the current action is unchanged, no action is
\* performed and no memory record is added.
C11_NoRedecision ==
    [][ last_call'.op = "update"
        => LET a == agents[0]
               b == agents'[0]
           IN  /\ a.action_duration > 0 =>
                     /\ b.current_action = a.current_action
                     /\ b.memory = a.memory
                     /\ b.total_actions = a.total_actions
                     /\ b.action_counts = a.action_counts
                     /\ b.habits = a.habits
                     /\ b.money = a.money
                     /\ clock' = clock
                     /\ b.action_duration = a.action_duration - last_call'.dt
               /\ a.action_duration <= 0 =>
                     /\ b.current_action = last_call'.action
                     /\ b.total_actions = a.total_actions + 1
                     /\ b.action_counts[b.current_action]
                          = a.action_counts[b.current_action] + 1
                     /\ b.memory # <<>>
                     /\ b.memory[Len(b.memory)].timestamp = clock
                     /\ b.memory[Len(b.memory)].action = b.current_action ]_vars

\* an update call has passed over an agent in the middle of its one action
C11_Witness ==
    /\ last_call.op = "update"
    /\ last_call.action = "none"
    /\ calls = 2
    /\ agents[0].total_actions = 1
    /\ Len(agents[0].memory) = 1
    /\ agents[0].action_duration > 0

----------------------------------------------------------------------------
(* Claims about the order of a step's phases *)

\* C12: within one step() the phases run in strict order, each finished for
\* all agents before the next begins: the agents' updates in list order,
\* location resolution, social interactions, pattern suggestions, habit
\* evolution, pattern discovery and evolution, statistics, and only then the
\* advance of total_time. A step that completes shows every phase's result in
\* that order; a step that an exception leaves shows the results of the
\* phases before the failing one and none of the later ones.
C12_PhaseOrder ==
    [][ (last_call'.op = "step" /\ last_call'.action = "none"
         /\ calls' = calls + 1)
        => LET resolved ==
                   \A i \in AgentIds :
                       TargetType(agents'[i].current_action) # "None" =>
                           /\ CurrentLocation(occupants', i) # "None"
                           /\ LocationInfo[CurrentLocation(occupants', i)].location_type
                                = TargetType(agents'[i].current_action)
               updates_first ==
                   /\ Len(events') >= NumAgents
                   /\ \A i \in AgentIds :
                         /\ events'[i + 1].type = "agent_action"
                         /\ events'[i + 1].agent = i
           IN  /\ updates_first
               /\ last_call'.raised = "none" =>
                     /\ resolved
                     /\ \A i \in AgentIds :
                           events'[i + 1].action = agents'[i].current_action
                     /\ social_network' = environment_update(social_network)
                     /\ \A k \in 1..Len(patterns') :
                           \E j \in 1..Len(patterns) :
                              /\ patterns[j].pattern_id = patterns'[k].pattern_id
                              /\ patterns'[k].last_used = patterns[j].last_used + 1
                     /\ stats'.total_actions = TotalActions(agents', 0)
                     /\ stats'.pattern_discoveries = Len(patterns')
                     /\ stats'.total_time = stats.total_time + time_step
                     /\ events'[Len(events')].type = "simulation_update"
                     /\ events'[Len(events')].time = stats'.total_time
               /\ last_call'.raised = "KeyError" =>
                     /\ resolved
                     /\ social_network' # environment_update(social_network)
                     /\ patterns' = patterns
                     /\ stats' = stats
                     /\ events'[Len(events')].type # "simulation_update"
               /\ last_call'.raised = "AttributeError" =>
                     /\ social_network' = environment_update(social_network)
                     /\ Len(patterns') = Len(patterns)
                     /\ \A k \in 1..Len(patterns') :
                           patterns'[k].last_used <= patterns[k].last_used
                     /\ stats' = stats
                     /\ events'[Len(events')].type # "simulation_update" ]_vars

\* a step has completed in which an agent moved for its action and the
\* evolution phase aged one pattern and pruned the other
C12_Witness ==
    /\ last_call.op = "step"
    /\ last_call.action = "none"
    /\ last_call.raised = "none"
    /\ stats.total_time = time_step
    /\ Len(patterns) = 1
    /\ patterns[1].last_used = 1
    /\ stats.pattern_discoveries = 1
    /\ agents[0].current_action = "work"
    /\ CurrentLocation(occupants, 0) = "Office Complex"

----------------------------------------------------------------------------
(* Claims about the event callbacks *)

\* C13: when a subscriber callback raises during trigger_event the exception
\* is caught and does not propagate: every subscriber of that event kind is
\* still called, in registration order, and trigger_event returns to the step
\* that called it.
C13_CallbackIsolation ==
    last_call.op = "trigger_event" =>
        LET cs == IF last_call.action \in DOMAIN event_callbacks
                  THEN event_callbacks[last_call.action] ELSE <<>>
        IN  /\ last_call.raised = "none"
            /\ Len(delivered) = Len(cs)
            /\ \A i \in 1..Len(cs) :
                  /\ delivered[i].callback = cs[i].id
                  /\ delivered[i].caught = cs[i].raises

\* three subscribers of one kind, the first of which raised, have all been
\* called
C13_Witness ==
    /\ last_call.op = "trigger_event"
    /\ Len(delivered) = 3
    /\ delivered[1].caught
    /\ ~delivered[3].caught

----------------------------------------------------------------------------
(* Claims about the behaviour model's suggestions *)

\* A pattern that fits agent a now (at least 4 of its 5 conditions within 0.2
\* of a's needs and the time of day) and is established and successful
Qualifies(p, a) ==
    /\ matches_conditions(p, AgentState(a, day_fraction))
    /\ p.usage_count >= 5
    /\ p.success_rate > 6000

\* C14: suggest_action returns an action only if the store holds a pattern
\* that matches the agent's needs and time of day, has usage_count >= 5 and
\* success_rate > 0.6, and the action is the first action of such a pattern;
\* if no pattern qualifies it returns no suggestion.
C14_SuggestOnlyFromEstablished ==
    [][(last_call'.op = "suggest_action" /\ calls' = calls + 1) =>
         /\ last_call'.action # "None" =>
               \E i \in 1..Len(patterns) :
                  /\ Qualifies(patterns[i], agents[last_call'.agent])
                  /\ patterns[i].actions # <<>>
                  /\ patterns[i].actions[1] = last_call'.action
         /\ (\A i \in 1..Len(patterns) :
                ~Qualifies(patterns[i], agents[last_call'.agent]))
               => last_call'.action = "None"]_vars

\* A suggestion was returned from a store that also holds a successful
\* pattern used only 4 times, which matches another agent
C14_Witness ==
    /\ last_call.op = "suggest_action"
    /\ last_call.action \in ActionType
    /\ \E i \in 1..Len(patterns), j \in DOMAIN agents :
          /\ matches_conditions(patterns[i], AgentState(agents[j], day_fraction))
          /\ patterns[i].success_rate > 6000
          /\ patterns[i].usage_count = 4

----------------------------------------------------------------------------
(* Claims about the evolution of the pattern store *)

Ineffective(p) == p.usage_count >= 10 /\ p.success_rate < 3000

\* C15: a pattern with usage_count >= 10 and success_rate < 0.3 is no longer
\* in the store after one evolve_patterns() call: whatever has its id
\* afterwards is another pattern, with another usage_count and success_rate.
C15_IneffectivePruned ==
    [][(last_call'.op = "evolve_patterns" /\ calls' = calls + 1) =>
         \A i \in 1..Len(patterns) :
            Ineffective(patterns[i]) =>
               \A j \in 1..Len(patterns') :
                  \/ patterns'[j].pattern_id # patterns[i].pattern_id
                  \/ /\ patterns'[j].usage_count # patterns[i].usage_count
                     /\ patterns'[j].success_rate # patterns[i].success_rate]_vars

\* evolve_patterns has run on a store that held the pattern used 10 times
\* with success rate 0.1, and the store still holds other patterns
C15_Witness ==
    /\ last_call.op = "evolve_patterns"
    /\ calls = 1
    /\ pattern_counter >= 3
    /\ patterns # <<>>
    /\ \A j \in 1..Len(patterns) : patterns[j].pattern_id # <<"pattern", 2, 0>>

\* Stale once evolve_patterns has aged it
Stale(p) == p.last_used + 1 > 100 /\ p.usage_count < 5

\* C16: evolve_patterns increments every stored pattern's recency counter by
\* exactly 1 and removes a pattern exactly when it is ineffective or stale;
\* every other pattern stays in the store with its conditions, actions,
\* usage_count and success_rate unchanged.
C16_EvolveOnlyAgesAndPrunes ==
    [][(last_call'.op = "evolve_patterns" /\ calls' = calls + 1) =>
         \A i \in 1..Len(patterns) :
            IF Ineffective(patterns[i]) \/ Stale(patterns[i])
            THEN \A j \in 1..Len(patterns') :
                    \/ patterns'[j].pattern_id # patterns[i].pattern_id
                    \/ patterns'[j].last_used = 0
            ELSE \E j \in 1..Len(patterns') :
                    /\ patterns'[j].pattern_id = patterns[i].pattern_id
                    /\ patterns'[j].last_used = patterns[i].last_used + 1
                    /\ patterns'[j].conditions = patterns[i].conditions
                    /\ patterns'[j].actions = patterns[i].actions
                    /\ patterns'[j].usage_count = patterns[i].usage_count
                    /\ patterns'[j].success_rate = patterns[i].success_rate]_vars

----------------------------------------------------------------------------
(* Claims about saving and loading the pattern store *)

\* C17: saving a pattern store with save_patterns and loading it into an
\* empty model with load_patterns yields the same pattern ids and, for every
\* id, identical conditions, actions (in order), success_rate and usage_count.
C17_SaveLoadRoundTrip ==
    [][(/\ last_call'.op = "load_patterns"
        /\ calls' = calls + 1
        /\ last_call.op = "save_patterns") =>
         /\ last_call'.raised = "none"
         /\ Len(patterns') = Len(patterns)
         /\ \A i \in 1..Len(patterns) :
               /\ patterns'[i].pattern_id = patterns[i].pattern_id
               /\ patterns'[i].conditions = patterns[i].conditions
               /\ patterns'[i].actions = patterns[i].actions
               /\ patterns'[i].success_rate = patterns[i].success_rate
               /\ patterns'[i].usage_count = patterns[i].usage_count]_vars

\* A store of an established pattern and a mutation made in this run was
\* saved and has been loaded again
C17_Witness ==
    /\ last_call.op = "load_patterns"
    /\ calls = 3
    /\ file.state = "json"
    /\ Len(file.entries) >= 2
    /\ Len(patterns) = Len(file.entries)
    /\ \E i \in 1..Len(patterns) :
          patterns[i].pattern_id[1] = "mutation" /\ patterns[i].usage_count = 0
    /\ \E i \in 1..Len(patterns) : patterns[i].usage_count = 10

\* C18: load_patterns on a missing file or on a corrupt file (invalid JSON,
\* or a record with missing or invalid fields such as an unknown action
\* name) raises no error and leaves an initially empty store empty.
C18_CorruptFileGivesEmptyStore ==
    [][(/\ last_call'.op = "load_patterns"
        /\ calls' = calls + 1
        /\ \/ file.state \in {"missing", "invalid_json"}
           \/ \E i \in 1..Len(file.entries) : EntryError(file.entries[i].data) # "none")
         => /\ last_call'.raised = "none"
            /\ patterns' = <<>>]_vars

----------------------------------------------------------------------------
(* Claims about the discovery of patterns *)

\* The agents with at least 5 memory entries
WithFiveMemories == {i \in DOMAIN agents : Len(agents[i].memory) >= 5}

\* C19: discover_patterns is a silent no-op when fewer than 3 agents are
\* given, when fewer than 3 of them have at least 5 memory entries, or when
\* fewer than 2 clusters are possible; an agent with exactly 5 memory entries
\* counts toward the required 3.  When the agents with at least 5 entries
\* are enough for 2 clusters the call is not skipped: n >= 4 agents go into
\* n // 2 clusters, one cluster has 2 members and gives a new pattern.
C19_DiscoverSkipsOnlyWithoutData ==
    [][(last_call'.op = "discover_patterns" /\ calls' = calls + 1) =>
         /\ last_call'.raised = "none"
         /\ IF \/ Cardinality(DOMAIN agents) < 3
               \/ Cardinality(WithFiveMemories) < 3
               \/ Min(5, Cardinality(WithFiveMemories) \div 2) < 2
            THEN patterns' = patterns /\ pattern_counter' = pattern_counter
            ELSE pattern_counter' > pattern_counter]_vars

\* C20: calling discover_patterns twice in immediate succession on the same
\* agents with unchanged memories (KMeans, seeded, labels them the same way)
\* does not change the pattern store's size on the second call.
C20_DiscoverTwiceKeepsSize ==
    [][(/\ last_call.op = "discover_patterns"
        /\ last_call'.op = "discover_patterns"
        /\ calls' = calls + 1
        /\ agents' = agents
        /\ last_call'.labels = last_call.labels)
         => Len(patterns') = Len(patterns)]_vars

----------------------------------------------------------------------------
(* Claims about the social interactions of a step *)

\* The edge between i and j is stronger in both directions than the decay of
\* the step's start leaves it: create_social_connection has acted on the pair
Strengthened(i, j) ==
    /\ Strength(social_network', i, j)
         = Min(100000, Strength(environment_update(social_network), i, j) + 5000)
    /\ Strength(social_network', j, i)
         = Min(100000, Strength(environment_update(social_network), j, i) + 5000)
    /\ Strength(social_network', i, j)
         > Strength(environment_update(social_network), i, j)

\* C21: when the interaction roll succeeds for a pair of co-located agents of
\* which at least one is in SOCIALIZE, the step strengthens the edge between
\* the two in both directions (capped at 1.0), satisfies the social need of
\* both, increments stats['social_interactions'] by one and emits one
\* social_interaction event naming both agents and the location.
C21_InteractionEffects ==
    [][(last_call'.op = "step" /\ last_call'.action = "none"
        /\ calls' = calls + 1) =>
         \A i, j \in AgentIds :
            (i < j /\ Strengthened(i, j)) =>
               /\ stats'.social_interactions = stats.social_interactions + 1
               /\ Cardinality({k \in 1..Len(events') :
                                 events'[k].type = "social_interaction"}) = 1
               /\ \E k \in 1..Len(events') :
                     /\ events'[k].type = "social_interaction"
                     /\ {events'[k].agent1, events'[k].agent2} = {i, j}
                     /\ events'[k].location = CurrentLocation(occupants', i)
                     /\ events'[k].location = CurrentLocation(occupants', j)]_vars

----------------------------------------------------------------------------
(* Claims about the suggestion phase of a step *)

\* The step's events that report an action of agent i as suggested
SuggestedEvents(i) ==
    {k \in 1..Len(events') :
        /\ events'[k].type = "agent_action"
        /\ events'[k].agent = i
        /\ events'[k].ai_suggested}

\* C22: in the suggestion phase an agent's current_action is overridden, its
\* duration reset and perform_action re-run only when suggest_action returns
\* an action that differs from the one the agent last decided, and an
\* agent_action event with ai_suggested = true is emitted exactly for the
\* overrides.  The update phase reports agent i's action in the step's event
\* i + 1; an action that differs from it afterwards was put there by the
\* suggestion phase.
C22_SuggestionOverrides ==
    [][(last_call'.op = "step" /\ last_call'.action = "none"
        /\ calls' = calls + 1) =>
         \A i \in AgentIds :
            IF agents'[i].current_action # events'[i + 1].action
            THEN Cardinality(SuggestedEvents(i)) = 1
            ELSE SuggestedEvents(i) = {}]_vars

----------------------------------------------------------------------------
(* Claims about the agent's utilities *)

\* The agent a with the needs and the money of the scenario: hunger 95,
\* money 50, energy, happiness and social need 50
Scenario(a) ==
    [a EXCEPT !.needs.hunger.value = 9500, !.needs.energy.value = 5000,
              !.needs.happiness.value = 5000, !.needs.social_need.value = 5000,
              !.money = 5000]

\* C25: for an agent with hunger = 95, money = 50 and energy = happiness =
\* social_need = 50 the pre-noise utility of EAT is strictly greater than
\* that of each of WORK, SLEEP and SOCIALIZE, for every personality, mood,
\* habit strength and learned-reward state the agent can be in.
C25_EatWinsWhenStarving ==
    \A action \in {"work", "sleep", "socialize"} :
        pre_noise_utility(Scenario(agents[0]), "eat", day_fraction)
          > pre_noise_utility(Scenario(agents[0]), action, day_fraction)

\* Hunger and money values (1/100) the utility is compared at
HungerLevels == {0, 2000, 5000, 9500, 10000}

MoneyLevels == {0, 500, 5000, 20000, 50000}

\* The pre-noise EAT utility of agent a were its hunger h and its money m
EatUtilityAt(a, h, m) ==
    pre_noise_utility([a EXCEPT !.needs.hunger.value = h, !.money = m],
                      "eat", day_fraction)

\* C26: with all other agent state fixed, the pre-noise EAT utility is
\* non-decreasing in hunger, and an agent with less money never has a higher
\* pre-noise EAT utility than the same agent with more money.
C26_EatUtilityMonotone ==
    \A h1, h2 \in HungerLevels, m1, m2 \in MoneyLevels :
        (h1 <= h2 /\ m1 <= m2) =>
            /\ EatUtilityAt(agents[0], h1, m1) <= EatUtilityAt(agents[0], h2, m1)
            /\ EatUtilityAt(agents[0], h1, m1) <= EatUtilityAt(agents[0], h1, m2)

----------------------------------------------------------------------------
(* Claims about the feedback on suggestions *)

\* Pattern k of the store matches the agent the call was made for and starts
\* with the action that was suggested
Hit(k) ==
    /\ matches_conditions(patterns[k],
                          AgentState(agents[last_call'.agent], day_fraction))
    /\ patterns[k].actions # <<>>
    /\ patterns[k].actions[1] = last_call'.action

\* The last 20 outcomes at most of a history
Recent(h) == SubSeq(h, Len(h) - Min(20, Len(h)) + 1, Len(h))

\* C27: update_pattern_effectiveness changes at most one pattern, the first
\* in store order whose conditions match the agent's state and whose first
\* action equals the suggested action: it appends the outcome, keeps only the
\* 20 most recent outcomes and sets success_rate to the fraction of successes
\* in the kept history; hence in every reachable state each pattern's history
\* has length <= 20 and success_rate is in [0,1].
C27_FeedbackUpdatesFirstMatch ==
    /\ [](\A k \in 1..Len(patterns) :
            /\ Len(patterns[k].effectiveness_history) <= 20
            /\ patterns[k].success_rate >= 0
            /\ patterns[k].success_rate <= 10000)
    /\ [][(last_call'.op = "update_pattern_effectiveness"
           /\ calls' = calls + 1) =>
            /\ Len(patterns') = Len(patterns)
            /\ \A k \in 1..Len(patterns) :
                  IF Hit(k) /\ \A j \in 1..(k - 1) : ~Hit(j)
                  THEN /\ patterns'[k].effectiveness_history =
                            Recent(Append(patterns[k].effectiveness_history,
                                          last_call'.success))
                       /\ patterns'[k].success_rate =
                            (CountTrue(patterns'[k].effectiveness_history) * 10000)
                            \div Len(patterns'[k].effectiveness_history)
                       /\ patterns'[k].pattern_id = patterns[k].pattern_id
                       /\ patterns'[k].conditions = patterns[k].conditions
                       /\ patterns'[k].actions = patterns[k].actions
                  ELSE patterns'[k] = patterns[k]]_vars

\* A 21st outcome was reported for the first pattern: it keeps 20 of them,
\* and the second pattern, which matches the same agent and starts with the
\* same action, has the 5 outcomes it started with
C27_Witness ==
    /\ last_call.op = "update_pattern_effectiveness"
    /\ last_call.action = "eat"
    /\ patterns[1].usage_count = 21
    /\ Len(patterns[1].effectiveness_history) = 20
    /\ matches_conditions(patterns[2],
                          AgentState(agents[last_call.agent], day_fraction))
    /\ patterns[2].actions[1] = "eat"
    /\ patterns[2].usage_count = 5
    /\ Len(patterns[2].effectiveness_history) = 5

----------------------------------------------------------------------------
(* Claims about the choice among the qualifying patterns *)

\* success_rate * (1 + 0.1 * (100 - recency counter)), in 1/100000
RecencyScore(p) == p.success_rate * (10 + (100 - p.last_used))

\* C28: suggest_action selects, among the qualifying patterns, one that
\* maximizes success_rate * (1 + 0.1 * (100 - recency counter)), resets that
\* pattern's recency counter to 0 and changes nothing else; a call that
\* returns no suggestion leaves the store entirely unchanged.
C28_SuggestPicksBestAndResets ==
    [][(last_call'.op = "suggest_action" /\ calls' = calls + 1) =>
         IF last_call'.action = "None"
         THEN patterns' = patterns
         ELSE \E k \in 1..Len(patterns) :
                 /\ Qualifies(patterns[k], agents[last_call'.agent])
                 /\ \A j \in 1..Len(patterns) :
                       Qualifies(patterns[j], agents[last_call'.agent]) =>
                          RecencyScore(patterns[k]) >= RecencyScore(patterns[j])
                 /\ last_call'.action = patterns[k].actions[1]
                 /\ patterns' = [patterns EXCEPT ![k].last_used = 0]]_vars

\* A suggestion was taken from the second pattern of the store, the better of
\* two qualifying ones, and its recency counter is 0 while the first
\* pattern's is not
C28_Witness ==
    /\ last_call.op = "suggest_action"
    /\ last_call.action = "eat"
    /\ Qualifies(patterns[1], agents[last_call.agent])
    /\ Qualifies(patterns[2], agents[last_call.agent])
    /\ RecencyScore(patterns[1]) < RecencyScore([patterns[2] EXCEPT !.last_used = 4])
    /\ patterns[1].last_used = 2
    /\ patterns[2].last_used = 0

----------------------------------------------------------------------------
(* Claims about the mutation of patterns *)

\* Pattern j of the store after evolve_patterns is not one of the patterns
\* from before, aged by one: the call created it
Created(j) ==
    \A i \in 1..Len(patterns) :
        patterns'[j] # [patterns[i] EXCEPT !.last_used = @ + 1]

\* s and t hold the same actions the same number of times
IsPermutation(s, t) ==
    /\ Len(s) = Len(t)
    /\ \A a \in ActionType :
          Cardinality({k \in 1..Len(s) : s[k] = a})
            = Cardinality({k \in 1..Len(t) : t[k] = a})

\* Pattern i of the store before the call is a parent of the created pattern
\* m as C29 describes it
IsParentOf(i, m) ==
    /\ ~Ineffective(patterns[i]) /\ ~Stale(patterns[i])
    /\ patterns[i].success_rate > 8000
    /\ patterns[i].usage_count >= 5
    /\ m.success_rate = (patterns[i].success_rate * 9) \div 10
    /\ IsPermutation(m.actions, patterns[i].actions)
    /\ \E k \in 1..Len(patterns') :
          patterns'[k] = [patterns[i] EXCEPT !.last_used = @ + 1]

\* C29: one evolve_patterns call creates at most 3 mutated patterns, each
\* from a parent that survived pruning and has success_rate > 0.8 and
\* usage_count >= 5; a mutated pattern is stored under an id not used before,
\* with success_rate = 0.9 x the parent's, usage_count 0, an empty
\* effectiveness history and an action sequence that is a permutation of the
\* parent's, and the parent itself is left unchanged.
C29_MutationsAreNewPatterns ==
    [][(last_call'.op = "evolve_patterns" /\ calls' = calls + 1) =>
         /\ Cardinality({j \in 1..Len(patterns') : Created(j)}) <= 3
         /\ \A j \in 1..Len(patterns') :
               Created(j) =>
                  /\ \A i \in 1..Len(patterns) :
                        patterns[i].pattern_id # patterns'[j].pattern_id
                  /\ patterns'[j].usage_count = 0
                  /\ patterns'[j].effectiveness_history = <<>>
                  /\ \E i \in 1..Len(patterns) :
                        IsParentOf(i, patterns'[j])]_vars

\* C30: mutation perturbs each numeric condition of the parent by an amount
\* in [-0.1, +0.1], clamped to [0,1]; in particular, for a parent created by
\* discover_patterns (need means on the 0..100 scale plus time-of-day) no
\* condition of the mutated pattern differs from the parent's value by more
\* than 0.1.
C30_MutationStaysNearParent ==
    [][(last_call'.op = "evolve_patterns" /\ calls' = calls + 1) =>
         \A j \in 1..Len(patterns'), i \in 1..Len(patterns) :
            (/\ Created(j)
             /\ patterns'[j].pattern_id[1] = "mutation"
             /\ patterns'[j].pattern_id[3] = patterns[i].pattern_id
             /\ patterns[i].pattern_id[1] = "pattern") =>
               \A c \in DOMAIN patterns[i].conditions :
                  /\ patterns'[j].conditions[c] - patterns[i].conditions[c] <= 10
                  /\ patterns[i].conditions[c] - patterns'[j].conditions[c] <= 10]_vars

----------------------------------------------------------------------------
(* Claims about run() and the threads of the web application *)

\* C23: while the simulation runs on the thread of run_simulation_async, what
\* get_simulation_state returns to another thread is the state between two
\* steps: the agents, the size of the pattern store and the statistics are
\* those the engine had when its last step returned.
C23_SnapshotBetweenSteps ==
    [][(last_call'.op = "get_simulation_state" /\ calls' = calls + 1) =>
         /\ snapshot'.agents =
               [i \in DOMAIN between_steps.agents |->
                   get_status(between_steps.agents[i])]
         /\ snapshot'.total_patterns = Len(between_steps.patterns)
         /\ snapshot'.statistics = between_steps.stats]_vars

\* C24: once stop() has been called, the loop test of run() lets no new step
\* in, and run() ends only with running false and the pattern store saved.
C24_StopEndsTheRun ==
    /\ [][(stop_called /\ run_pc = "loop") => run_pc' # "body"]_vars
    /\ [](run_pc = "done" => ~running /\ file = save_patterns(patterns))

----------------------------------------------------------------------------
(* Claims about the agent's evolution and its update cycle *)

\* C32: evolve_behavior on an agent with fewer than 10 memory records changes
\* nothing; on an agent with 10 or more records it completes without error
\* and changes only habit strengths, each by +0.02 or -0.01 clamped to [0,1],
\* leaving needs, money, mood, memory and reward counters unchanged.
C32_EvolveBehaviorTunesHabits ==
    [][(last_call'.op = "evolve_behavior" /\ calls' = calls + 1) =>
         /\ Len(agents[0].memory) < 10 => agents'[0] = agents[0]
         /\ Len(agents[0].memory) >= 10 =>
               /\ last_call'.raised = "none"
               /\ [agents'[0] EXCEPT !.habits = agents[0].habits] = agents[0]
               /\ \A k \in HabitActions :
                     /\ [agents'[0].habits[k] EXCEPT !.strength = 0]
                           = [agents[0].habits[k] EXCEPT !.strength = 0]
                     /\ agents'[0].habits[k].strength \in
                           {agents[0].habits[k].strength,
                            Min(1000, agents[0].habits[k].strength + 20),
                            Max(0, agents[0].habits[k].strength - 10)}]_vars

\* C33: a new agent is idle with no remaining duration, so its first
\* update(dt) decides. An update decides exactly when no duration remains; a
\* decision sets the duration to a value in [1,3] and every update takes dt
\* off it, so a decision after the first comes less than one dt after the
\* duration ran out: 1 to 3 time units, rounded up to whole steps, after the
\* decision before. Under repeated calls every decision is followed by the
\* next one.
C33_UpdateCycle ==
    /\ [](calls = 0 => /\ agents[0].current_action = "idle"
                       /\ agents[0].action_duration = 0)
    /\ [][(calls' = calls + 1) =>
            /\ (agents'[0].total_actions = agents[0].total_actions + 1)
                  <=> (agents[0].action_duration <= 0)
            /\ agents[0].action_duration <= 0 =>
                  /\ agents'[0].action_duration + last_call'.dt \in 10..30
                  /\ calls > 0 => agents[0].action_duration > - last_call'.dt
            /\ agents[0].action_duration > 0 =>
                  /\ agents'[0].total_actions = agents[0].total_actions
                  /\ agents'[0].action_duration
                        = agents[0].action_duration - last_call'.dt]_vars
    /\ \A n \in 0..(MaxDecisions - 1) :
          (agents[0].total_actions = n) ~> (agents[0].total_actions = n + 1)

\* The agent waits out an action that lasts longer than one call
C33_Witness ==
    /\ agents[0].total_actions = MaxDecisions
    /\ calls > MaxDecisions
    /\ agents[0].action_duration <= 0

\* C34: a perform_action call that returns false leaves the agent's four
\* need values and its money as they were; only mood, the reward and attempt
\* counters of that action, the habit of that action and the memory change.
C34_FailedActionChangesNoResource ==
    [][(/\ last_call'.op = "perform_action"
        /\ calls' = calls + 1
        /\ ~last_call'.success) =>
         /\ agents'[0].needs = agents[0].needs
         /\ agents'[0].money = agents[0].money
         /\ [agents'[0] EXCEPT !.mood = agents[0].mood,
                               !.action_rewards = agents[0].action_rewards,
                               !.action_counts = agents[0].action_counts,
                               !.habits = agents[0].habits,
                               !.memory = agents[0].memory] = agents[0]
         /\ \A k \in ActionType \ {last_call'.action} :
               /\ agents'[0].action_rewards[k] = agents[0].action_rewards[k]
               /\ agents'[0].action_counts[k] = agents[0].action_counts[k]
         /\ \A k \in HabitActions \ {last_call'.action} :
               agents'[0].habits[k] = agents[0].habits[k]]_vars

\* A socialize call that failed and was recorded
C34_Witness ==
    /\ last_call.op = "perform_action"
    /\ last_call.action = "socialize"
    /\ ~last_call.success
    /\ last_call.raised = "none"
    /\ agents[0].action_counts["socialize"] > 0
    /\ agents[0].memory # <<>>

----------------------------------------------------------------------------
(* Claims about the pattern store over a run *)

\* C36: adding a pattern by discovery or by mutation never replaces an entry
\* of the store, also when load_patterns filled the store before the first
\* discovery: every pattern the store held before the call and still holds
\* under its id is the same pattern, aged by evolve_patterns at most.
C36_NewPatternsReplaceNothing ==
    [][(last_call'.op \in {"discover_patterns", "evolve_patterns"}
        /\ calls' = calls + 1) =>
         \A i \in 1..Len(patterns), j \in 1..Len(patterns') :
            patterns'[j].pattern_id = patterns[i].pattern_id =>
               [patterns'[j] EXCEPT !.last_used = patterns[i].last_used]
                  = patterns[i]]_vars

\* C37: among the patterns that qualify for a suggestion, suggest_action
\* never selects a pattern when another qualifying pattern has the same
\* recency counter and a strictly higher success rate, whatever the recency
\* counters have grown to.
C37_HigherSuccessWinsAtEqualRecency ==
    [][(/\ last_call'.op = "suggest_action"
        /\ calls' = calls + 1
        /\ last_call'.action # "None") =>
         \E k \in 1..Len(patterns) :
            /\ Qualifies(patterns[k], agents[last_call'.agent])
            /\ last_call'.action = patterns[k].actions[1]
            /\ patterns' = [patterns EXCEPT ![k].last_used = 0]
            /\ \A j \in 1..Len(patterns) :
                  (/\ Qualifies(patterns[j], agents[last_call'.agent])
                   /\ patterns[j].last_used = patterns[k].last_used) =>
                     patterns[j].success_rate <= patterns[k].success_rate]_vars

----------------------------------------------------------------------------
(* Claims about the end of run() *)

\* C39: run(max_time = T) with T > 0 on an engine that is never paused
\* terminates: it performs steps until the first one after which
\* total_time >= T, then leaves the loop, sets running to false and saves the
\* pattern store; a step on a paused engine changes no simulation state.
C39_RunEndsAtMaxTime ==
    /\ <>(paused \/ run_pc = "done")
    /\ [](run_pc = "done" /\ ~stop_called =>
             /\ stats.total_time >= MaxTime
             /\ stats.total_time - time_step < MaxTime
             /\ ~running
             /\ file = save_patterns(patterns))
    /\ [][paused /\ run_pc = "body" =>
             UNCHANGED <<agents, occupants, social_network, patterns,
                         pattern_counter, stats, events>>]_vars

----------------------------------------------------------------------------
(* Claims about discovery and evolution in the engine's step *)

\* The pattern_discovered events of the last step
DiscoveryEvents(ev) ==
    SelectSeq(ev, LAMBDA e : e.type = "pattern_discovered")

\* C31: a step emits a pattern_discovered event if and only if the store
\* holds more patterns after its discovery than before, and the event carries
\* the difference as new_patterns and the new store size as total_patterns;
\* no other step emits such an event. (In these runs evolve_patterns neither
\* removes nor adds a pattern, so the store grows by discovery alone; a step
\* of a paused engine returns at once and hands no event to trigger_event.)
C31_DiscoveryEventIffGrown ==
    [][(/\ last_call'.op = "step"
        /\ calls' = calls + 1
        /\ last_call'.action # "paused") =>
         IF Len(patterns') > Len(patterns)
         THEN DiscoveryEvents(events') =
                 << [type |-> "pattern_discovered",
                     new_patterns |-> Len(patterns') - Len(patterns),
                     total_patterns |-> Len(patterns')] >>
         ELSE DiscoveryEvents(events') = <<>>]_vars

\* A step found two patterns in a store that held some
C31_Witness ==
    /\ last_call.op = "step"
    /\ \E k \in 1..Len(events) :
          /\ events[k].type = "pattern_discovered"
          /\ events[k].new_patterns = 2
          /\ events[k].total_patterns > 2

\* C35: in every state reached by steps from an empty pattern store every
\* pattern has usage_count = 0: no pattern is established, suggest_action
\* returns an action for no agent, no step applies a suggestion and no
\* mutation is created.
C35_NoPatternIsEverUsed ==
    /\ \A k \in 1..Len(patterns) :
          /\ patterns[k].usage_count = 0
          /\ patterns[k].effectiveness_history = <<>>
          /\ patterns[k].pattern_id[1] = "pattern"
    /\ Suggestible(Current, day_fraction) = {}
    /\ last_call.raised # "AttributeError"

\* Two discoveries filled the store and evolve_patterns aged what they found
C35_Witness ==
    /\ Len(patterns) >= 3
    /\ patterns[1].last_used >= 2
    /\ \E k \in 1..Len(patterns), i \in DOMAIN agents :
          matches_conditions(patterns[k], AgentState(agents[i], day_fraction))

\* C38: with the time step of 0.1, discover_patterns is invoked in at most
\* one step per 50 accumulated time units and evolve_patterns in at most one
\* step per 100. The steps of one run here span less than one time unit, so
\* a step finds a pattern only in a store none was found for yet, and ages
\* only patterns that were not aged yet.
C38_OneDiscoveryPerInterval ==
    [][(last_call'.op = "step" /\ calls' = calls + 1
        /\ MaxSteps * time_step < 500) =>
         /\ patterns # <<>> => pattern_counter' = pattern_counter
         /\ \A i \in 1..Len(patterns), j \in 1..Len(patterns') :
               (/\ patterns'[j].pattern_id = patterns[i].pattern_id
                /\ patterns[i].last_used >= 1) =>
                  patterns'[j].last_used = patterns[i].last_used]_vars

====
